---- MODULE Spec2Model ----
(***************************************************************************)
(* AlgoPlonk: proof codec (helper.go), verifier generator                  *)
(* (verifier/verifier.go, algoplonk.go), the generated PuyaPy verifiers    *)
(* (verifier/template*.go) as programs and as deployed applications, the   *)
(* trusted setup loader (setup/setup.go) with Compile, and the argument    *)
(* encoders (utils/utils.go), modelled as state machines.                  *)
(*                                                                         *)
(* Byte strings are sequences of bytes (0..255) at their real lengths.     *)
(* The two field moduli are scaled down to the toy curve                   *)
(*     y^2 = x^3 + 3 over F_7, a group of prime order 13,                  *)
(* so that R_MOD (scalar field) = 13 and P_MOD (coordinate field) = 7.     *)
(* The AVM opcodes the templates call (sha256, ec_add, ec_scalar_mul,      *)
(* ec_pairing_check) are modelled on that curve; sha256 is a seeded        *)
(* position-weighted checksum, the seed being chosen in the initial state. *)
(***************************************************************************)
EXTENDS Integers, Sequences, FiniteSets, TLC

VARIABLES
    \* --- proof codec (helper.go) and the template that reads its output
    proof,      \* the gnark proof object handed to marshalPlonkBls12381Proof
    res,        \* the bytes the encoder returned
    rd,         \* the proof fields as read by the Variant B template
    cpc,        \* "idle" | "new" | "marshalled" | "read" | "refused"
    \* --- verifier generator (verifier.go, algoplonk.go)
    gvk,        \* the verifying key handed to the generator
    gkind,      \* the output kind of the call ("" before it)
    gout,       \* text written to the io.Writer so far
    gerr,       \* the error returned ("" while none)
    files,      \* the file system: path -> [exists, content]
    gpc,        \* "idle" | "ready" | "wrote" | "filed"
    \* --- one run of a generated verifier
    seed,       \* selects the hash function standing for sha256
    tmpl,       \* the template the running verifier was generated from
    args,       \* [proof |-> bytes, pub |-> bytes]: the exported blobs
    m,          \* the local variables of verify()
    ops,        \* names of the AVM hash / curve opcodes executed so far
    hashed,     \* proof-supplied points as they entered each hash input
    ecin,       \* proof-supplied points as they were given to curve opcodes
    vpc,        \* position in verify()
    \* --- logicsig and smart contract run on the same input
    runLs, runSc, epc,
    \* --- trusted setup (setup/setup.go) and Compile (algoplonk.go)
    embedded,   \* embeddedFiles: path -> bytes of the embedded file
    ld,         \* caller -> its call of loadTrustedSetupBytes
    comp,       \* the call of Compile and what it returned
    \* --- a deployed smart-contract verifier (verifier/template*.go)
    app,        \* the application: creator, program, global state
    txn,        \* the last application call and how it ended
    \* --- the argument encoders (utils/utils.go)
    enc,        \* the last encoder call and what it returned
    \* --- helpers (helper.go, utils/utils.go)
    wit,        \* the call of extractPublicInputs on a witness
    rc,         \* the files seen by ShouldRecompile and what it returned
    \* --- the subroutines and the scalar loops of the verifiers on their own
    calc        \* the call of a subroutine, or the run of a loop, and its result

codecVars == <<proof, res, rd, cpc>>
genVars   == <<gvk, gkind, gout, gerr, files, gpc>>
verVars   == <<seed, tmpl, args, m, ops, hashed, ecin, vpc>>
eqVars    == <<runLs, runSc, epc>>
setupVars == <<embedded, ld, comp>>
appVars   == <<app, txn>>
encVars   == <<enc>>
miscVars  == <<wit, rc, calc>>
restVars  == <<appVars, encVars, miscVars>>
libVars   == <<setupVars, restVars>>
vars      == <<codecVars, genVars, verVars, eqVars, libVars>>

-----------------------------------------------------------------------------
(* Curve parameters (scaled down, see the header)                          *)

\* curve order
R_MOD == 13
\* field order
P_MOD == 7

\* bound of the model: sha256 is one of the MaxSeed + 1 checksum functions
MaxSeed == 1
\* bound of the model: number of Bsb22 (custom gate) commitments in a proof
MaxBsb == 1

-----------------------------------------------------------------------------
(* Byte strings and AVM big integers                                       *)

bzero(n) == [i \in 1..n |-> 0]

\* values of 2^16 and more are only ever compared with the moduli: they are
\* all represented by Saturated
Saturated == 256 * 256

\* BigUInt.from_bytes: the big-endian value of a byte string
BigUIntFromBytes(b) ==
    LET n == Len(b) IN
    IF n = 0 THEN 0
    ELSE IF \E i \in 1..(n - 2) : b[i] # 0 THEN Saturated
    ELSE IF n = 1 THEN b[1]
    ELSE b[n - 1] * 256 + b[n]

\* .bytes of the result of AVM big integer arithmetic: big-endian, no
\* leading zero byte
BigUIntBytes(v) ==
    IF v = 0 THEN << >>
    ELSE IF v < 256 THEN <<v>>
    ELSE <<v \div 256, v % 256>>

\* bzero(n) | b: the AVM pads the shorter operand of b| with zeros on the left
PadLeft(b, n) == IF Len(b) >= n THEN b ELSE bzero(n - Len(b)) \o b

\* UInt256(v).bytes
UInt256Bytes(v) == PadLeft(BigUIntBytes(v), 32)

\* Python slice b[lo:hi]
Slice(b, lo, hi) == SubSeq(b, lo + 1, hi)

RECURSIVE WeightedSum(_, _, _)
WeightedSum(b, lo, hi) ==
    IF lo > hi THEN 0
    ELSE IF lo = hi THEN ((lo % 250) + 1) * b[lo]
    ELSE LET mid == (lo + hi) \div 2
         IN  WeightedSum(b, lo, mid) + WeightedSum(b, mid + 1, hi)

\* sha256 opcode: 32 bytes, a function of the whole input
sha256(sd, b) == UInt256Bytes((sd * 97 + Len(b) + WeightedSum(b, 1, Len(b))) % 251)

\* ASCII of the transcript labels b'gamma', b'beta', b'alpha', b'zeta'
Label ==
    [ gamma |-> <<103, 97, 109, 109, 97>>, beta |-> <<98, 101, 116, 97>>,
      alpha |-> <<97, 108, 112, 104, 97>>, zeta |-> <<122, 101, 116, 97>> ]

-----------------------------------------------------------------------------
(* The toy curve group: G1Table[k] is k*G, the point at infinity is 0*G    *)

G1Table == << <<1, 2>>, <<6, 3>>, <<2, 2>>, <<4, 5>>, <<3, 3>>, <<5, 3>>,
              <<5, 4>>, <<3, 4>>, <<4, 2>>, <<2, 5>>, <<6, 4>>, <<1, 5>> >>

G1Points == 0..(R_MOD - 1)

\* the AVM encoding of k*G: x || y, each big-endian on coordLen bytes;
\* the point at infinity is all zero
G1Bytes(k, coordLen) ==
    IF k = 0 THEN bzero(2 * coordLen)
    ELSE PadLeft(BigUIntBytes(G1Table[k][1]), coordLen)
         \o PadLeft(BigUIntBytes(G1Table[k][2]), coordLen)

\* the k with p = G1Bytes(k), or -1 when p encodes no point of the curve
G1Index(p, coordLen) ==
    IF Len(p) # 2 * coordLen THEN -1
    ELSE LET x == BigUIntFromBytes(SubSeq(p, 1, coordLen))
             y == BigUIntFromBytes(SubSeq(p, coordLen + 1, 2 * coordLen))
         IN  IF x = 0 /\ y = 0 THEN 0
             ELSE IF \E k \in 1..(R_MOD - 1) : G1Table[k] = <<x, y>>
                  THEN CHOOSE k \in 1..(R_MOD - 1) : G1Table[k] = <<x, y>>
                  ELSE -1

-----------------------------------------------------------------------------
(* helper.go: the BLS12-381 proof encoder                                  *)

\* gnark's G1Affine.RawBytes for BLS12-381: 96 bytes, x || y; for the point
\* at infinity the first byte is 0x80 (verifier.go, the "hex" helper)
RawBytes(k) ==
    IF k = 0 THEN <<128>> \o bzero(95) ELSE G1Bytes(k, 48)

\* gnark's fr.Element.Bytes: 32 bytes big-endian
FrBytes(v) == UInt256Bytes(v)

RECURSIVE ConcatAll(_)
ConcatAll(ss) == IF ss = << >> THEN << >> ELSE Head(ss) \o ConcatAll(Tail(ss))

marshalPlonkBls12381Proof_SwapEvals(p) ==
    ConcatAll([i \in 1..3 |-> RawBytes(p.LRO[i])])
    \o ConcatAll([i \in 1..3 |-> RawBytes(p.H[i])])
    \o ConcatAll([i \in 1..5 |-> FrBytes(p.BatchedProof.ClaimedValues[i + 2])])
    \o RawBytes(p.Z)
    \o FrBytes(p.ZShiftedOpening.ClaimedValue)
    \o FrBytes(p.BatchedProof.ClaimedValues[2])
    \o FrBytes(p.BatchedProof.ClaimedValues[1])
    \o RawBytes(p.BatchedProof.H)
    \o RawBytes(p.ZShiftedOpening.H)
    \o ConcatAll([i \in 1..Len(p.Bsb22Commitments) |->
                    FrBytes(p.BatchedProof.ClaimedValues[7 + i])])
    \o ConcatAll([i \in 1..Len(p.Bsb22Commitments) |->
                    RawBytes(p.Bsb22Commitments[i])])

\* ClaimedValues[i] of the Go code is ClaimedValues[i + 1] here
marshalPlonkBls12381Proof(p) ==
    ConcatAll([i \in 1..3 |-> RawBytes(p.LRO[i])])
    \o ConcatAll([i \in 1..3 |-> RawBytes(p.H[i])])
    \o ConcatAll([i \in 1..5 |-> FrBytes(p.BatchedProof.ClaimedValues[i + 2])])
    \o RawBytes(p.Z)
    \o FrBytes(p.ZShiftedOpening.ClaimedValue)
    \o FrBytes(p.BatchedProof.ClaimedValues[1])
    \o FrBytes(p.BatchedProof.ClaimedValues[2])
    \o RawBytes(p.BatchedProof.H)
    \o RawBytes(p.ZShiftedOpening.H)
    \o ConcatAll([i \in 1..Len(p.Bsb22Commitments) |->
                    FrBytes(p.BatchedProof.ClaimedValues[7 + i])])
    \o ConcatAll([i \in 1..Len(p.Bsb22Commitments) |->
                    RawBytes(p.Bsb22Commitments[i])])

\* utils.go: chunks splits a byte slice into 32-byte chunks
chunks(data) == [i \in 1..(Len(data) \div 32) |-> SubSeq(data, 32 * (i - 1) + 1, 32 * i)]

-----------------------------------------------------------------------------
(* The proof as the templates read it                                      *)

\* proof[i].bytes of an array of Bytes32 (0-based)
W1(pw, i) == pw[i + 1]
W2(pw, i) == pw[i + 1] \o pw[i + 2]
W3(pw, i) == pw[i + 1] \o pw[i + 2] \o pw[i + 3]

\* templateBLS12_381.go (explicit quotient check, 35 elements)
ReadProofPuyaBls(pw) ==
    [ L_COM |-> W3(pw, 0), R_COM |-> W3(pw, 3), O_COM |-> W3(pw, 6),
      H_0 |-> W3(pw, 9), H_1 |-> W3(pw, 12), H_2 |-> W3(pw, 15),
      L_AT_Z |-> W1(pw, 18), R_AT_Z |-> W1(pw, 19), O_AT_Z |-> W1(pw, 20),
      S1_AT_Z |-> W1(pw, 21), S2_AT_Z |-> W1(pw, 22),
      GRAND_PRODUCT |-> W3(pw, 23),
      GRAND_PRODUCT_AT_Z_OMEGA |-> W1(pw, 26),
      QUOTIENT_POLY_AT_Z |-> W1(pw, 27),
      LINEAR_POLY_AT_Z |-> W1(pw, 28),
      BATCH_OPENING_AT_Z |-> W3(pw, 29),
      OPENING_AT_Z_OMEGA |-> W3(pw, 32) ]

-----------------------------------------------------------------------------
(* Codec machine: a proof object is marshalled, the blob is chunked into   *)
(* the StaticArray[Bytes32, 35] argument and read by the template          *)

\* field i of the proof object is v when i = hot, and a value of its own
\* otherwise; index 0 is the point at infinity
FieldVal(i, hot, v) == IF i = hot THEN v ELSE (5 * i + 1) % R_MOD

MkProof(hot, v, nb) ==
    [ LRO |-> [i \in 1..3 |-> FieldVal(i, hot, v)],
      H   |-> [i \in 1..3 |-> FieldVal(3 + i, hot, v)],
      Z   |-> FieldVal(7, hot, v),
      BatchedProof |->
        [ H |-> FieldVal(8, hot, v),
          ClaimedValues |-> [i \in 1..(7 + nb) |-> FieldVal(9 + i, hot, v)] ],
      ZShiftedOpening |->
        [ H |-> FieldVal(9, hot, v),
          ClaimedValue |-> FieldVal(18, hot, v) ],
      Bsb22Commitments |-> [i \in 1..nb |-> FieldVal(19 + i, hot, v)] ]

ProofObjects ==
    { MkProof(hot, v, nb) : hot \in 0..18, v \in G1Points, nb \in 0..MaxBsb }

NoRead == [none |-> TRUE]

CodecIdle == proof = NoRead /\ res = << >> /\ rd = NoRead /\ cpc = "idle"

MarshalProof ==
    /\ cpc = "new"
    /\ res' = marshalPlonkBls12381Proof(proof)
    /\ cpc' = "marshalled"
    /\ UNCHANGED <<proof, rd>>

\* the verify method takes proof: StaticArray[Bytes32, typing.Literal[35]]
TemplateRead ==
    /\ cpc = "marshalled"
    /\ Len(res) = 35 * 32
    /\ rd' = ReadProofPuyaBls(chunks(res))
    /\ cpc' = "read"
    /\ UNCHANGED <<proof, res>>

TemplateRefuse ==
    /\ cpc = "marshalled"
    /\ Len(res) # 35 * 32
    /\ cpc' = "refused"
    /\ UNCHANGED <<proof, res, rd>>

-----------------------------------------------------------------------------
(* verifier.go: the verifier generator                                     *)

\* bound of the model: length of a key's CommitmentConstraintIndexes
MaxGates == 2

ErrCustomGates      == "custom gates are not supported at the moment"
ErrUnsupportedCurve == "unsupported curve"
ErrFieldNotFound    == "commitmentConstraintIndexes not found"
ErrFieldType        == "type assertion on verifying key failed"
ErrCreate           == "error creating file"
Panic               == "panic"

\* concrete types of plonk.VerifyingKey: the two supported ones, another
\* gnark curve (same fields), a foreign type without the field, and a foreign
\* type whose field of that name is no []uint64
VkTypes == {"bn254", "bls12381", "bls12_377", "nofield", "otherfield"}

HasField(vk)   == vk.type # "nofield"
FieldIsU64(vk) == vk.type \notin {"nofield", "otherfield"}

\* hasCustomGates: <<result, error>>; reflect.Value.FieldByName panics on a
\* nil pointer, which is not dereferenced
hasCustomGates_TwoOrMore(vk) ==
    IF vk.isNil THEN <<FALSE, Panic>>
    ELSE IF ~HasField(vk) THEN <<FALSE, ErrFieldNotFound>>
    ELSE IF ~FieldIsU64(vk) THEN <<FALSE, ErrFieldType>>
    ELSE <<Len(vk.CommitmentConstraintIndexes) > 1, "">>

hasCustomGates(vk) ==
    IF vk.isNil THEN <<FALSE, Panic>>
    ELSE IF ~HasField(vk) THEN <<FALSE, ErrFieldNotFound>>
    ELSE IF ~FieldIsU64(vk) THEN <<FALSE, ErrFieldType>>
    ELSE <<Len(vk.CommitmentConstraintIndexes) > 0, "">>

\* the template chosen by the type switch
TemplateName(vk, outputType) ==
    IF vk.type = "bn254"
    THEN (IF outputType = "LogicSig" THEN "tmplLogicSigVerifierBn254"
                                     ELSE "tmplSmartContractVerifierBn254")
    ELSE (IF outputType = "LogicSig" THEN "tmplLogicSigVerifierBls12_381"
                                     ELSE "tmplSmartContractVerifierBls12_381")

\* t.Execute(w, vk): the template text with the key's constants inlined
Render_CountsWrites(vk, outputType) ==
    <<TemplateName(vk, outputType),
      "VK_NB_PUBLIC_INPUTS = " \o ToString(vk.NbPublicVariables),
      "VK_DOMAIN_SIZE = " \o ToString(vk.Size + Len(gout))>>

Render(vk, outputType) ==
    <<TemplateName(vk, outputType),
      "VK_NB_PUBLIC_INPUTS = " \o ToString(vk.NbPublicVariables),
      "VK_DOMAIN_SIZE = " \o ToString(vk.Size)>>

\* WritePythonCode: <<error, bytes written to w>>
WritePythonCode(vk, outputType) ==
    LET h == hasCustomGates(vk) IN
    IF h[2] = Panic THEN <<Panic, << >> >>
    ELSE IF h[2] # "" THEN <<"error checking for custom gates: " \o h[2], << >> >>
    ELSE IF h[1] THEN <<ErrCustomGates, << >> >>
    ELSE IF vk.type \notin {"bn254", "bls12381"} THEN <<ErrUnsupportedCurve, << >> >>
    ELSE <<"", Render(vk, outputType)>>

\* a path of the file system: absent, or present with its content
NoFile == [exists |-> FALSE, content |-> << >>]
OldFile == [exists |-> TRUE, content |-> <<"old content">>]
TargetPath == "verifier.py"

\* fmt.Errorf("error writing PuyaPy contract: %v", err); nil stays nil and a
\* panic passes through
WrapWriteError(e) ==
    IF e \in {"", Panic} THEN e ELSE "error writing PuyaPy contract: " \o e

VerifyingKeys ==
    { [type |-> ty, isNil |-> nl, CommitmentConstraintIndexes |-> idx,
       NbPublicVariables |-> np, Size |-> 4 * np] :
        ty \in VkTypes, nl \in BOOLEAN, np \in 1..2,
        idx \in UNION { [1..n -> 0..1] : n \in 0..MaxGates } }

GenIdle ==
    /\ gvk = NoRead /\ gkind = "" /\ gout = << >> /\ gerr = ""
    /\ files = NoRead /\ gpc = "idle"

GenInit ==
    /\ gvk \in VerifyingKeys
    /\ gkind = ""
    /\ gout = << >>
    /\ gerr = ""
    /\ files \in { [p \in {TargetPath} |-> c] : c \in {NoFile, OldFile} }
    /\ gpc = "ready"

\* a direct call of verifier.WritePythonCode with a writer
CallWritePythonCode(outputType) ==
    /\ gpc = "ready"
    /\ LET r == WritePythonCode(gvk, outputType) IN
         /\ gerr' = r[1]
         /\ gout' = gout \o r[2]
    /\ gkind' = outputType
    /\ gpc' = "wrote"
    /\ UNCHANGED <<gvk, files>>

\* a second call of verifier.WritePythonCode on the same key, with the same
\* writer, which holds what the first call wrote
CallWritePythonCodeAgain(outputType) ==
    /\ gpc = "wrote"
    /\ LET r == WritePythonCode(gvk, outputType) IN
         /\ gerr' = r[1]
         /\ gout' = gout \o r[2]
    /\ gkind' = outputType
    /\ gpc' = "rewrote"
    /\ UNCHANGED <<gvk, files>>

\* algoplonk.go WritePuyaPyVerifier: os.Create (which truncates), then
\* WritePythonCode into the file; createOk is whether the path is writable
CallWritePuyaPyVerifier(outputType, createOk) ==
    /\ gpc = "ready"
    /\ IF ~createOk
       THEN gerr' = ErrCreate /\ files' = files
       ELSE LET r == WritePythonCode(gvk, outputType) IN
              /\ gerr' = WrapWriteError(r[1])
              /\ files' = [files EXCEPT
                             ![TargetPath] = [exists |-> TRUE, content |-> r[2]]]
    /\ gkind' = outputType
    /\ gpc' = "filed"
    /\ UNCHANGED <<gvk, gout>>

-----------------------------------------------------------------------------
(* The generated verifiers: templates, key constants, subroutines          *)

\* the four verifier templates: host convention, argument type, protocol
\* variant, number of proof words, bytes per coordinate, use of fs()
TmplBn254 ==
    [ name |-> "tmplPuyaVerifierBn254", host |-> "sc", array |-> "dynamic",
      variant |-> "A", words |-> 24, coordLen |-> 32, useFs |-> FALSE ]
TmplScBls ==
    [ name |-> "tmplSmartContractVerifierBls12_381", host |-> "sc",
      array |-> "dynamic", variant |-> "A", words |-> 33, coordLen |-> 48,
      useFs |-> TRUE ]
TmplLsBls ==
    [ name |-> "tmplLogicSigVerifierBls12_381", host |-> "ls", array |-> "raw",
      variant |-> "A", words |-> 33, coordLen |-> 48, useFs |-> TRUE ]
TmplPuyaBls ==
    [ name |-> "tmplPuyaVerifierBls12_381", host |-> "sc", array |-> "static",
      variant |-> "B", words |-> 35, coordLen |-> 48, useFs |-> TRUE ]

\* the key inlined in the verifier: domain of size 4 generated by 5, coset
\* shift 2; selector and permutation commitments as multiples of G; Qk of
\* the BLS12-381 key is the point at infinity; KZG secret 3
VkOf(t) ==
    [ NbPublicVariables |-> 2, Size |-> 4, SizeInv |-> 10, Generator |-> 5,
      CosetShift |-> 2,
      Ql |-> 3, Qr |-> 5, Qo |-> 7, Qm |-> 2,
      Qk |-> IF t.coordLen = 48 THEN 0 ELSE 8,
      S |-> <<4, 6, 9>>,
      KzgG1 |-> 1, KzgSecret |-> 3 ]

\* {{ hex p }}: the point as the curve opcodes take it
hex(t, k) == G1Bytes(k, t.coordLen)

\* {{ hexEncoded p }}: RawBytes, kept for the transcript (BLS12-381 only)
hexEncoded(t, k) == IF t.useFs THEN RawBytes(k) ELSE G1Bytes(k, t.coordLen)

\* expmod multiplying by the base at the even bits of the exponent
RECURSIVE expmod_EvenBits(_, _, _)
expmod_EvenBits(base, exponent, modulus) ==
    IF exponent = 0 THEN 1
    ELSE LET rest == expmod_EvenBits((base * base) % modulus, exponent \div 2,
                                     modulus)
         IN  IF exponent % 2 = 0 THEN (base * rest) % modulus ELSE rest

RECURSIVE expmod(_, _, _)
expmod(base, exponent, modulus) ==
    IF exponent = 0 THEN 1
    ELSE LET rest == expmod((base * base) % modulus, exponent \div 2, modulus)
         IN  IF exponent % 2 = 1 THEN (base * rest) % modulus ELSE rest

curvemod(x) == BigUIntFromBytes(x) % R_MOD

\* the result of a curve opcode that failed
Fail == << >>

\* invert: x.bytes + (bzero(48) | neg_y.bytes), or x.bytes + UInt256(neg_y).bytes
invert(t, p) ==
    IF p = Fail THEN Fail
    ELSE LET x == Slice(p, 0, t.coordLen)
             y == BigUIntFromBytes(Slice(p, t.coordLen, Len(p)))
             neg_y == P_MOD - y
         IN  x \o PadLeft(BigUIntBytes(neg_y), t.coordLen)

\* fs: set the first bit of the all-zero point
fs(t, p) ==
    IF t.useFs /\ p = bzero(2 * t.coordLen)
    THEN [p EXCEPT ![1] = 128]
    ELSE p

\* ec_add, ec_scalar_mul: fail on bytes that encode no point of the curve;
\* the scalar is a big-endian integer of at most 32 bytes
ec_add(t, a, b) ==
    LET i == G1Index(a, t.coordLen)
        j == G1Index(b, t.coordLen)
    IN  IF i = -1 \/ j = -1 THEN Fail
        ELSE G1Bytes((i + j) % R_MOD, t.coordLen)

ec_scalar_mul(t, a, sc) ==
    LET i == G1Index(a, t.coordLen)
    IN  IF i = -1 \/ Len(sc) > 32 THEN Fail
        ELSE G1Bytes((i * (BigUIntFromBytes(sc) % R_MOD)) % R_MOD, t.coordLen)

\* ec_pairing_check of (digest, quotient) against (G2, [s]G2):
\* "fail", or whether e(digest, G2) * e(quotient, [s]G2) = 1
ec_pairing_check(t, digest, quotient) ==
    LET i == G1Index(digest, t.coordLen)
        j == G1Index(quotient, t.coordLen)
    IN  IF i = -1 \/ j = -1 THEN "fail"
        ELSE IF (i + VkOf(t).KzgSecret * j) % R_MOD = 0 THEN "true" ELSE "false"

-----------------------------------------------------------------------------
(* verify(): arguments, length checks, reading the proof, range checks     *)

\* the compiled contract either validates the encoding of its ABI arguments
\* on entry or takes them as they come, depending on the compiler release
Build(t, validates) == [validate |-> validates] @@ t

\* the two-byte big-endian length prefix of an ARC4 dynamic array
LengthPrefix(n) == <<n \div 256, n % 256>>

\* array.length
ArrayLength(t, blob) ==
    IF t.array = "dynamic" THEN blob[1] * 256 + blob[2] ELSE Len(blob) \div 32

\* the bytes the elements are read from: the logicsig drops the prefix with
\* [2:], a dynamic array is indexed after its prefix, a static one from 0
Elements(t, blob) ==
    IF t.array = "static" THEN blob
    ELSE IF Len(blob) < 2 THEN << >>
    ELSE SubSeq(blob, 3, Len(blob))

\* array[i] for i in 0..n-1, as a sequence of words
Items(body, n) == [i \in 1..n |-> SubSeq(body, 32 * (i - 1) + 1, 32 * i)]

\* entry of verify: argument decoding and the two length assertions;
\* TRUE when execution continues
LengthsOk_NoAssert(t, a) ==
    LET n == VkOf(t).NbPublicVariables IN
    IF t.host = "ls" THEN TRUE
    ELSE
        /\ (t.array = "dynamic" => Len(a.proof) >= 2 /\ Len(a.pub) >= 2)
        /\ t.validate =>
             /\ Len(Elements(t, a.proof)) = 32 * ArrayLength(t, a.proof)
             /\ Len(Elements(t, a.pub)) = 32 * ArrayLength(t, a.pub)
             /\ (t.array = "static" =>
                   Len(a.proof) = 32 * t.words /\ Len(a.pub) = 32 * n)

LengthsOk(t, a) ==
    LET n == VkOf(t).NbPublicVariables IN
    IF t.host = "ls"
    THEN /\ Len(Elements(t, a.proof)) = t.words * 32
         /\ Len(Elements(t, a.pub)) = n * 32
    ELSE
        /\ (t.array = "dynamic" => Len(a.proof) >= 2 /\ Len(a.pub) >= 2)
        /\ t.validate =>
             /\ Len(Elements(t, a.proof)) = 32 * ArrayLength(t, a.proof)
             /\ Len(Elements(t, a.pub)) = 32 * ArrayLength(t, a.pub)
             /\ (t.array = "static" =>
                   Len(a.proof) = 32 * t.words /\ Len(a.pub) = 32 * n)
        /\ t.array = "dynamic" =>
             /\ ArrayLength(t, a.proof) = t.words
             /\ ArrayLength(t, a.pub) = n

\* indexing past the end of the argument fails
CanRead(t, a) ==
    /\ Len(Elements(t, a.proof)) >= 32 * t.words
    /\ Len(Elements(t, a.pub)) >= 32 * VkOf(t).NbPublicVariables

\* tmplSmartContractVerifierBls12_381: proof[i] by word index
ReadProofScBls(pw) ==
    [ L_COM |-> W3(pw, 0), R_COM |-> W3(pw, 3), O_COM |-> W3(pw, 6),
      H_0 |-> W3(pw, 9), H_1 |-> W3(pw, 12), H_2 |-> W3(pw, 15),
      L_AT_Z |-> W1(pw, 18), R_AT_Z |-> W1(pw, 19), O_AT_Z |-> W1(pw, 20),
      S1_AT_Z |-> W1(pw, 21), S2_AT_Z |-> W1(pw, 22),
      GRAND_PRODUCT |-> W3(pw, 23),
      GRAND_PRODUCT_AT_Z_OMEGA |-> W1(pw, 26),
      BATCH_OPENING_AT_Z |-> W3(pw, 27),
      OPENING_AT_Z_OMEGA |-> W3(pw, 30) ]

\* tmplLogicSigVerifierBls12_381: proof[a:b] by byte offset
ReadProofLsBls_ShiftedOpening(b) ==
    [ L_COM |-> Slice(b, 0, 96), R_COM |-> Slice(b, 96, 192),
      O_COM |-> Slice(b, 192, 288),
      H_0 |-> Slice(b, 288, 384), H_1 |-> Slice(b, 384, 480),
      H_2 |-> Slice(b, 480, 576),
      L_AT_Z |-> Slice(b, 576, 608), R_AT_Z |-> Slice(b, 608, 640),
      O_AT_Z |-> Slice(b, 640, 672),
      S1_AT_Z |-> Slice(b, 672, 704), S2_AT_Z |-> Slice(b, 704, 736),
      GRAND_PRODUCT |-> Slice(b, 736, 832),
      GRAND_PRODUCT_AT_Z_OMEGA |-> Slice(b, 832, 864),
      BATCH_OPENING_AT_Z |-> Slice(b, 960, 1056),
      OPENING_AT_Z_OMEGA |-> Slice(b, 864, 960) ]

ReadProofLsBls(b) ==
    [ L_COM |-> Slice(b, 0, 96), R_COM |-> Slice(b, 96, 192),
      O_COM |-> Slice(b, 192, 288),
      H_0 |-> Slice(b, 288, 384), H_1 |-> Slice(b, 384, 480),
      H_2 |-> Slice(b, 480, 576),
      L_AT_Z |-> Slice(b, 576, 608), R_AT_Z |-> Slice(b, 608, 640),
      O_AT_Z |-> Slice(b, 640, 672),
      S1_AT_Z |-> Slice(b, 672, 704), S2_AT_Z |-> Slice(b, 704, 736),
      GRAND_PRODUCT |-> Slice(b, 736, 832),
      GRAND_PRODUCT_AT_Z_OMEGA |-> Slice(b, 832, 864),
      BATCH_OPENING_AT_Z |-> Slice(b, 864, 960),
      OPENING_AT_Z_OMEGA |-> Slice(b, 960, 1056) ]

\* tmplPuyaVerifierBn254: two words per point
ReadProofBn254(pw) ==
    [ L_COM |-> W2(pw, 0), R_COM |-> W2(pw, 2), O_COM |-> W2(pw, 4),
      H_0 |-> W2(pw, 6), H_1 |-> W2(pw, 8), H_2 |-> W2(pw, 10),
      L_AT_Z |-> W1(pw, 12), R_AT_Z |-> W1(pw, 13), O_AT_Z |-> W1(pw, 14),
      S1_AT_Z |-> W1(pw, 15), S2_AT_Z |-> W1(pw, 16),
      GRAND_PRODUCT |-> W2(pw, 17),
      GRAND_PRODUCT_AT_Z_OMEGA |-> W1(pw, 19),
      BATCH_OPENING_AT_Z |-> W2(pw, 20),
      OPENING_AT_Z_OMEGA |-> W2(pw, 22) ]

ReadProof(t, a) ==
    LET body == Elements(t, a.proof)
        pw == Items(body, t.words)
    IN  IF t.host = "ls" THEN ReadProofLsBls(body)
        ELSE IF t.variant = "B" THEN ReadProofPuyaBls(pw)
        ELSE IF t.coordLen = 48 THEN ReadProofScBls(pw)
        ELSE ReadProofBn254(pw)

\* public_inputs[i], or public_inputs[i*32:(i+1)*32] in the logicsig
ReadPublicInputs(t, a) == Items(Elements(t, a.pub), VkOf(t).NbPublicVariables)

\* the scalars of the proof that are checked against q
ProofScalars(t, p) ==
    <<p.L_AT_Z, p.R_AT_Z, p.O_AT_Z, p.S1_AT_Z, p.S2_AT_Z,
      p.GRAND_PRODUCT_AT_Z_OMEGA>>
    \o (IF t.variant = "B"
        THEN <<p.QUOTIENT_POLY_AT_Z, p.LINEAR_POLY_AT_Z>> ELSE << >>)

\* "check proof public inputs are well-formed": TRUE when all are below q
RangeOk_ProofOnly(t, p, pub) ==
    \A i \in 1..Len(ProofScalars(t, p)) :
        BigUIntFromBytes(ProofScalars(t, p)[i]) < R_MOD

RangeOk(t, p, pub) ==
    /\ \A i \in 1..Len(ProofScalars(t, p)) :
          BigUIntFromBytes(ProofScalars(t, p)[i]) < R_MOD
    /\ \A i \in 1..Len(pub) : BigUIntFromBytes(pub[i]) < R_MOD

-----------------------------------------------------------------------------
(* verify(): Fiat-Shamir challenges and the scalar part                    *)

\* BigUInt.from_bytes(X.bytes) of a proof scalar or public input
Fr(b) == BigUIntFromBytes(b)

\* the log entries for the proof points nms that entered the hash of
\* challenge ch, through fs() or as they are
HashedPoints(t, p, ch, nms, throughFs) ==
    { [ch |-> ch, pt |-> nm,
       bytes |-> IF throughFs THEN fs(t, p[nm]) ELSE p[nm]] :
        nm \in nms }

\* gamma, beta, alpha, zeta
DeriveChallenges(t, sd, p, pub) ==
    LET vk == VkOf(t)
        gamma_pre == sha256(sd, Label.gamma
                        \o hexEncoded(t, vk.S[1]) \o hexEncoded(t, vk.S[2])
                        \o hexEncoded(t, vk.S[3]) \o hexEncoded(t, vk.Ql)
                        \o hexEncoded(t, vk.Qr) \o hexEncoded(t, vk.Qm)
                        \o hexEncoded(t, vk.Qo) \o hexEncoded(t, vk.Qk)
                        \o ConcatAll(pub)
                        \o fs(t, p.L_COM) \o fs(t, p.R_COM) \o fs(t, p.O_COM))
        beta_pre == sha256(sd, Label.beta \o gamma_pre)
        alpha_pre == sha256(sd, Label.alpha \o beta_pre \o fs(t, p.GRAND_PRODUCT))
        zeta_pre == sha256(sd, Label.zeta \o alpha_pre
                        \o fs(t, p.H_0) \o fs(t, p.H_1) \o fs(t, p.H_2))
    IN  [ gamma |-> curvemod(gamma_pre), beta |-> curvemod(beta_pre),
          alpha |-> curvemod(alpha_pre), zeta |-> curvemod(zeta_pre),
          trace |-> << >>,
          hashed |-> HashedPoints(t, p, "gamma", {"L_COM", "R_COM", "O_COM"}, TRUE)
                     \cup HashedPoints(t, p, "alpha", {"GRAND_PRODUCT"}, TRUE)
                     \cup HashedPoints(t, p, "zeta", {"H_0", "H_1", "H_2"}, TRUE) ]

\* temp[k]: the product of the first k elements of batch
RECURSIVE PrefixProduct(_, _)
PrefixProduct(batch, k) ==
    IF k = 0 THEN 1 ELSE (batch[k] * PrefixProduct(batch, k - 1)) % R_MOD

\* inv when the backward loop reaches index i: the inverse of the product of
\* the first i elements
RECURSIVE RunningInverse(_, _)
RunningInverse(batch, i) ==
    IF i = Len(batch)
    THEN expmod(PrefixProduct(batch, Len(batch)), R_MOD - 2, R_MOD)
    ELSE (RunningInverse(batch, i + 1) * batch[i + 1]) % R_MOD

\* "Compute batch inversion"
BatchInvert(batch) ==
    [i \in 1..Len(batch) |->
        (RunningInverse(batch, i) * PrefixProduct(batch, i - 1)) % R_MOD]

\* "interpolate the public inputs (PI)"
RECURSIVE SumPI(_, _, _)
SumPI(lagrange, pub, i) ==
    IF i = 0 THEN 0
    ELSE (SumPI(lagrange, pub, i - 1) + ((lagrange[i] * Fr(pub[i])) % R_MOD)) % R_MOD

PublicInputPoly(t, zeta, zn, pub) ==
    LET vk == VkOf(t)
        n == vk.NbPublicVariables
        w_(i) == expmod(vk.Generator, i - 1, R_MOD)
        batch == [i \in 1..n |-> (zeta + R_MOD - w_(i)) % R_MOD]
        inv == BatchInvert(batch)
        lagrange == [i \in 1..n |-> (w_(i) * ((inv[i] * zn) % R_MOD)) % R_MOD]
    IN  SumPI(lagrange, pub, n)

\* Zz, zn, PI, alpha2Lagrange, the permutation term s1, and then either the
\* evaluation of the linearized polynomial (Variant A) or the two sides of
\* the quotient check (Variant B)
Scalars(t, c, p, pub) ==
    LET q == R_MOD
        vk == VkOf(t)
        Zz == (expmod(c.zeta, vk.Size, q) + q - 1) % q
        zn == (Zz * vk.SizeInv) % q
        PI == PublicInputPoly(t, c.zeta, zn, pub)
        res1 == expmod((c.zeta + q - 1) % q, q - 2, q)
        alpha2Lagrange == ((((((res1 * zn) % q) * c.alpha) % q) * c.alpha) % q)
        s1a == (((Fr(p.S1_AT_Z) * c.beta) % q) + c.gamma + Fr(p.L_AT_Z)) % q
        s2a == (((Fr(p.S2_AT_Z) * c.beta) % q) + c.gamma + Fr(p.R_AT_Z)) % q
        o == (Fr(p.O_AT_Z) + c.gamma) % q
        s1 == (((((((s1a * s2a) % q) * o) % q) * c.alpha) % q)
                 * Fr(p.GRAND_PRODUCT_AT_Z_OMEGA)) % q
        base == [Zz |-> Zz, zn |-> zn, PI |-> PI,
                 alpha2Lagrange |-> alpha2Lagrange, perm |-> s1]
    IN  IF t.variant = "A"
        THEN [linearized_poly_at_z |-> q - ((s1 + PI + q - alpha2Lagrange) % q)]
             @@ base
        ELSE [quot |-> (Fr(p.LINEAR_POLY_AT_Z) + PI + s1 + q - alpha2Lagrange) % q,
              s2 |-> (Fr(p.QUOTIENT_POLY_AT_Z) * Zz) % q]
             @@ base

\* "if quot != s2: return arc4.Bool(False)"
QuotientCheckFails_GreaterOnly(sc) ==
    sc.quot > sc.s2

QuotientCheckFails(sc) ==
    sc.quot # sc.s2

-----------------------------------------------------------------------------
(* verify(): the curve part                                                *)

\* one executed statement of the curve code: the opcode (or "invert"), its
\* result, and the proof-supplied points among its operands
Op(name, result, given) == [op |-> name, res |-> result, given |-> given]

\* operands of a statement: the local variable name, or the bytes b, which
\* come from proof field pt ("" for a key constant or a computed scalar)
Reg(name) == [reg |-> name]
Arg(b, pt) == [bytes |-> b, pt |-> pt]

\* the statement "dst = op(a, b)" with op one of ec.scalar_mul, ec.add and
\* invert (which takes a only)
Instr(dst, op, a, b) == [dst |-> dst, op |-> op, a |-> a, b |-> b]

\* "add_term = ec.scalar_mul(com, sc)" and "dst = ec.add(dst, add_term)"
MulAdd(dst, com, sc) ==
    << Instr("add_term", "ec_scalar_mul", com, Arg(sc, "")),
       Instr(dst, "ec_add", Reg(dst), Reg("add_term")) >>

\* the value of an operand, given the local variables
Operand(regs, o) == IF "reg" \in DOMAIN o THEN regs[o.reg] ELSE o

\* statement i executed on operand values a and b
Exec(t, i, a, b) ==
    CASE i.op = "ec_scalar_mul" ->
           Op(i.op, ec_scalar_mul(t, a.bytes, b.bytes), {x \in {a} : x.pt # ""})
      [] i.op = "ec_add" ->
           Op(i.op, ec_add(t, a.bytes, b.bytes), {x \in {a, b} : x.pt # ""})
      [] i.op = "invert" ->
           Op(i.op, invert(t, a.bytes), {})

\* the statements instrs executed in order from the local variables regs,
\* up to the first opcode that fails: the local variables at the end and
\* what was executed
RECURSIVE RunOps(_, _, _)

\* statement "dst = ..." has executed as o, and instrs follow
Then(t, regs, dst, o, instrs) ==
    IF o.res = Fail THEN [regs |-> regs, trace |-> <<o>>]
    ELSE LET r == RunOps(t, (dst :> Arg(o.res, "")) @@ regs, instrs)
         IN  [regs |-> r.regs, trace |-> <<o>> \o r.trace]

RunOps(t, regs, instrs) ==
    IF instrs = << >> THEN [regs |-> regs, trace |-> << >>]
    ELSE Then(t, regs, Head(instrs).dst,
              Exec(t, Head(instrs), Operand(regs, Head(instrs).a),
                   Operand(regs, Head(instrs).b)),
              Tail(instrs))

\* "compute the folded commitment to H" and "compute commitment to
\* linearization polynomial"
Commitments(t, c, sc, p) ==
    LET q == R_MOD
        vk == VkOf(t)
        zn2 == BigUIntBytes(expmod(c.zeta, vk.Size + 2, q))
        znminus1 == BigUIntBytes((expmod(c.zeta, vk.Size, q) + q - 1) % q)
        u == (Fr(p.GRAND_PRODUCT_AT_Z_OMEGA) * c.beta) % q
        v == (((Fr(p.S1_AT_Z) * c.beta) % q) + Fr(p.L_AT_Z) + c.gamma) % q
        w == (((Fr(p.S2_AT_Z) * c.beta) % q) + Fr(p.R_AT_Z) + c.gamma) % q
        s1 == (((((u * v) % q) * w) % q) * c.alpha) % q
        coset_square == (vk.CosetShift * vk.CosetShift) % q
        betazeta == (c.beta * c.zeta) % q
        u2 == (betazeta + Fr(p.L_AT_Z) + c.gamma) % q
        v2 == (((betazeta * vk.CosetShift) % q) + Fr(p.R_AT_Z) + c.gamma) % q
        w2 == (((betazeta * coset_square) % q) + Fr(p.O_AT_Z) + c.gamma) % q
        s2neg == q - ((((u2 * v2) % q) * w2) % q)
        s2 == (s2neg * c.alpha + sc.alpha2Lagrange) % q
        ab == (Fr(p.L_AT_Z) * Fr(p.R_AT_Z)) % q
    IN  [hashed |-> {}] @@
        RunOps(t, << >>,
          << Instr("folded_h", "ec_scalar_mul", Arg(p.H_2, "H_2"), Arg(zn2, "")),
             Instr("folded_h", "ec_add", Reg("folded_h"), Arg(p.H_1, "H_1")),
             Instr("folded_h", "ec_scalar_mul", Reg("folded_h"), Arg(zn2, "")),
             Instr("folded_h", "ec_add", Reg("folded_h"), Arg(p.H_0, "H_0")) >>
          \o (IF t.variant = "A"
              THEN << Instr("folded_h", "ec_scalar_mul", Reg("folded_h"),
                            Arg(znminus1, "")),
                      Instr("folded_h", "invert", Reg("folded_h"),
                            Reg("folded_h")) >>
              ELSE << >>)
          \o << Instr("lin_poly_com", "ec_scalar_mul", Arg(hex(t, vk.Ql), ""),
                      Arg(p.L_AT_Z, "")) >>
          \o MulAdd("lin_poly_com", Arg(hex(t, vk.Qr), ""), p.R_AT_Z)
          \o MulAdd("lin_poly_com", Arg(hex(t, vk.Qo), ""), p.O_AT_Z)
          \o MulAdd("lin_poly_com", Arg(hex(t, vk.Qm), ""), BigUIntBytes(ab))
          \o << Instr("lin_poly_com", "ec_add", Reg("lin_poly_com"),
                      Arg(hex(t, vk.Qk), "")) >>
          \o MulAdd("lin_poly_com", Arg(hex(t, vk.S[3]), ""), BigUIntBytes(s1))
          \o MulAdd("lin_poly_com", Arg(p.GRAND_PRODUCT, "GRAND_PRODUCT"),
                    BigUIntBytes(s2))
          \o (IF t.variant = "A"
              THEN << Instr("lin_poly_com", "ec_add", Reg("lin_poly_com"),
                            Reg("folded_h")) >>
              ELSE << >>))

\* "generate challenge to fold the opening proofs"
FoldChallenge(t, sd, c, sc, cm, p) ==
    curvemod(sha256(sd,
        Label.gamma \o UInt256Bytes(c.zeta)
        \o (IF t.variant = "A" THEN << >> ELSE cm.regs.folded_h.bytes)
        \o cm.regs.lin_poly_com.bytes
        \o fs(t, p.L_COM) \o fs(t, p.R_COM) \o fs(t, p.O_COM)
        \o hexEncoded(t, VkOf(t).S[1]) \o hexEncoded(t, VkOf(t).S[2])
        \o (IF t.variant = "A"
            THEN PadLeft(BigUIntBytes(sc.linearized_poly_at_z), 32)
            ELSE p.QUOTIENT_POLY_AT_Z \o p.LINEAR_POLY_AT_Z)
        \o p.L_AT_Z \o p.R_AT_Z \o p.O_AT_Z \o p.S1_AT_Z \o p.S2_AT_Z
        \o p.GRAND_PRODUCT_AT_Z_OMEGA))

\* the fold with each claimed evaluation weighted by one power of r less
\* than its commitment
FoldOpenings_ClaimsOneBehind(t, c, sc, cm, p, r) ==
    LET q == R_MOD
        vk == VkOf(t)
        k0 == IF t.variant = "A" THEN 1 ELSE 2
        r_acc(k) == expmod(r, k0 + k - 1, q)
        term(com, k) == MulAdd("digest", com, BigUIntBytes(r_acc(k)))
        claims0 == IF t.variant = "A"
                   THEN sc.linearized_poly_at_z
                   ELSE (Fr(p.QUOTIENT_POLY_AT_Z) + (Fr(p.LINEAR_POLY_AT_Z) * r)) % q
        claims == (claims0 + Fr(p.L_AT_Z) * r_acc(0) + Fr(p.R_AT_Z) * r_acc(1)
                     + Fr(p.O_AT_Z) * r_acc(2) + Fr(p.S1_AT_Z) * r_acc(3)
                     + Fr(p.S2_AT_Z) * r_acc(4)) % q
    IN  [ r |-> r, claims |-> claims,
          hashed |-> HashedPoints(t, p, "fold", {"L_COM", "R_COM", "O_COM"}, TRUE) ]
        @@
        RunOps(t,
          [digest |-> IF t.variant = "A" THEN cm.regs.lin_poly_com
                      ELSE cm.regs.folded_h],
          (IF t.variant = "A" THEN << >>
           ELSE MulAdd("digest", cm.regs.lin_poly_com, BigUIntBytes(r)))
          \o term(Arg(p.L_COM, "L_COM"), 1)
          \o term(Arg(p.R_COM, "R_COM"), 2)
          \o term(Arg(p.O_COM, "O_COM"), 3)
          \o term(Arg(hex(t, vk.S[1]), ""), 4)
          \o term(Arg(hex(t, vk.S[2]), ""), 5))

\* "fold the proof in one point" with the challenge r: term k of the fold
\* is weighted by r^(k0 + k - 1)
FoldOpenings(t, c, sc, cm, p, r) ==
    LET q == R_MOD
        vk == VkOf(t)
        k0 == IF t.variant = "A" THEN 1 ELSE 2
        r_acc(k) == expmod(r, k0 + k - 1, q)
        term(com, k) == MulAdd("digest", com, BigUIntBytes(r_acc(k)))
        claims0 == IF t.variant = "A"
                   THEN sc.linearized_poly_at_z
                   ELSE (Fr(p.QUOTIENT_POLY_AT_Z) + (Fr(p.LINEAR_POLY_AT_Z) * r)) % q
        claims == (claims0 + Fr(p.L_AT_Z) * r_acc(1) + Fr(p.R_AT_Z) * r_acc(2)
                     + Fr(p.O_AT_Z) * r_acc(3) + Fr(p.S1_AT_Z) * r_acc(4)
                     + Fr(p.S2_AT_Z) * r_acc(5)) % q
    IN  [ r |-> r, claims |-> claims,
          hashed |-> HashedPoints(t, p, "fold", {"L_COM", "R_COM", "O_COM"}, TRUE) ]
        @@
        RunOps(t,
          [digest |-> IF t.variant = "A" THEN cm.regs.lin_poly_com
                      ELSE cm.regs.folded_h],
          (IF t.variant = "A" THEN << >>
           ELSE MulAdd("digest", cm.regs.lin_poly_com, BigUIntBytes(r)))
          \o term(Arg(p.L_COM, "L_COM"), 1)
          \o term(Arg(p.R_COM, "R_COM"), 2)
          \o term(Arg(p.O_COM, "O_COM"), 3)
          \o term(Arg(hex(t, vk.S[1]), ""), 4)
          \o term(Arg(hex(t, vk.S[2]), ""), 5))

\* "verify the folded proof": the second folding challenge
SecondChallenge(t, sd, c, fo, p) ==
    curvemod(sha256(sd,
        fo.regs.digest.bytes \o p.BATCH_OPENING_AT_Z
        \o fs(t, p.GRAND_PRODUCT) \o p.OPENING_AT_Z_OMEGA
        \o UInt256Bytes(c.zeta) \o UInt256Bytes(fo.r)))

\* "verify the folded proof": the folded quotient and digest that go to the
\* pairing check, with the challenge r
PairingCheck(t, c, fo, p, r) ==
    LET q == R_MOD
        vk == VkOf(t)
        claims == (fo.claims + (Fr(p.GRAND_PRODUCT_AT_Z_OMEGA) * r)) % q
        zeta_omega == (c.zeta * vk.Generator) % q
        r3 == (r * zeta_omega) % q
        batch == Arg(p.BATCH_OPENING_AT_Z, "BATCH_OPENING_AT_Z")
        opening == Arg(p.OPENING_AT_Z_OMEGA, "OPENING_AT_Z_OMEGA")
    IN  [ r |-> r, claims |-> claims,
          hashed |-> HashedPoints(t, p, "fold2", {"GRAND_PRODUCT"}, TRUE)
                     \cup HashedPoints(t, p, "fold2",
                             {"BATCH_OPENING_AT_Z", "OPENING_AT_Z_OMEGA"},
                             FALSE) ]
        @@
        RunOps(t, [quotient |-> batch, digest |-> fo.regs.digest],
          MulAdd("quotient", opening, BigUIntBytes(r))
          \o MulAdd("digest", Arg(p.GRAND_PRODUCT, "GRAND_PRODUCT"),
                    BigUIntBytes(r))
          \o << Instr("claims_com", "ec_scalar_mul", Arg(hex(t, vk.KzgG1), ""),
                      Arg(BigUIntBytes(claims), "")),
                Instr("neg_claims_com", "invert", Reg("claims_com"),
                      Reg("claims_com")),
                Instr("digest", "ec_add", Reg("digest"), Reg("neg_claims_com")),
                Instr("points_quotient", "ec_scalar_mul", batch,
                      Arg(BigUIntBytes(c.zeta), "")) >>
          \o MulAdd("points_quotient", opening, BigUIntBytes(r3))
          \o << Instr("digest", "ec_add", Reg("digest"), Reg("points_quotient")),
                Instr("quotient", "invert", Reg("quotient"), Reg("quotient")) >>)

-----------------------------------------------------------------------------
(* verify() as a machine: st is the state of one run                       *)

\* verify returns result, or aborts when result is "abort"
Return(st, result) ==
    [st EXCEPT !.vpc = "done", !.m = [result |-> result] @@ st.m]

\* the opcodes among the executed statements
RECURSIVE Opcodes(_)
Opcodes(trace) ==
    IF trace = << >> THEN << >>
    ELSE (IF Head(trace).op = "invert" THEN << >> ELSE << Head(trace).op >>)
         \o Opcodes(Tail(trace))

\* Continue with a failed opcode answered by False instead of an abort
Continue_FalseOnFail(st, hashes, b, key, next) ==
    IF b.trace # << >> /\ b.trace[Len(b.trace)].res = Fail
    THEN [st EXCEPT !.vpc = "done", !.m = [result |-> "False"] @@ st.m,
                    !.ecin = @ \cup UNION {b.trace[i].given : i \in 1..Len(b.trace)}]
    ELSE [st EXCEPT
            !.ops = @ \o hashes \o Opcodes(b.trace),
            !.ecin = @ \cup UNION {b.trace[i].given : i \in 1..Len(b.trace)},
            !.hashed = @ \cup b.hashed,
            !.vpc = next,
            !.m = (key :> [k \in DOMAIN b \ {"trace", "hashed"} |-> b[k]])
                  @@ st.m]

\* a block b of verify has run in st after the hashes it starts with: its
\* opcodes are logged; one that failed aborts the run, otherwise b's values
\* become the local variables key and the run goes on at next
Continue(st, hashes, b, key, next) ==
    LET s2 == [st EXCEPT
                 !.ops = @ \o hashes \o Opcodes(b.trace),
                 !.ecin = @ \cup UNION {b.trace[i].given : i \in 1..Len(b.trace)},
                 !.hashed = @ \cup b.hashed]
    IN  IF b.trace # << >> /\ b.trace[Len(b.trace)].res = Fail
        THEN Return(s2, "abort")
        ELSE [s2 EXCEPT
                !.vpc = next,
                !.m = (key :> [k \in DOMAIN b \ {"trace", "hashed"} |-> b[k]])
                      @@ st.m]

\* the quotient check of Variant B on the scalars just computed
CheckQuotient(s) ==
    IF s.tmpl.variant = "B" /\ QuotientCheckFails(s.m.sc)
    THEN Return(s, "False")
    ELSE [s EXCEPT !.vpc = "commit"]

\* "return arc4.Bool(check)", or the abort of a pairing check that failed
ReturnCheck(s, check) ==
    Return([s EXCEPT !.ops = @ \o <<"ec_pairing_check">>],
           CASE check = "fail" -> "abort"
             [] check = "true" -> "True"
             [] OTHER -> "False")

\* "check = ec.pairing_check(digest + quotient, g2)" on the folded digest and
\* quotient, when the run got that far
Verdict(s) ==
    IF s.vpc = "done" THEN s
    ELSE ReturnCheck(s, ec_pairing_check(s.tmpl, s.m.pc.regs.digest.bytes,
                                         s.m.pc.regs.quotient.bytes))

\* one step of verify() from position st.vpc
VerifyStep(st) ==
    LET t == st.tmpl
        a == st.args
        mm == st.m
    IN  CASE st.vpc = "start" ->
               IF LengthsOk(t, a) THEN [st EXCEPT !.vpc = "read"]
               ELSE Return(st, "abort")
          [] st.vpc = "read" ->
               IF CanRead(t, a)
               THEN [st EXCEPT !.vpc = "range",
                               !.m = [p |-> ReadProof(t, a),
                                      pub |-> ReadPublicInputs(t, a)] @@ mm]
               ELSE Return(st, "abort")
          [] st.vpc = "range" ->
               IF RangeOk(t, mm.p, mm.pub) THEN [st EXCEPT !.vpc = "challenges"]
               ELSE Return(st, "False")
          [] st.vpc = "challenges" ->
               Continue(st, <<"sha256", "sha256", "sha256", "sha256">>,
                        DeriveChallenges(t, st.seed, mm.p, mm.pub), "c", "scalars")
          [] st.vpc = "scalars" ->
               CheckQuotient([st EXCEPT
                                !.m = [sc |-> Scalars(t, mm.c, mm.p, mm.pub)] @@ mm])
          [] st.vpc = "commit" ->
               Continue(st, << >>, Commitments(t, mm.c, mm.sc, mm.p), "cm", "fold")
          [] st.vpc = "fold" ->
               Continue(st, <<"sha256">>,
                        FoldOpenings(t, mm.c, mm.sc, mm.cm, mm.p,
                            FoldChallenge(t, st.seed, mm.c, mm.sc, mm.cm, mm.p)),
                        "fo", "pairing")
          [] st.vpc = "pairing" ->
               Verdict(Continue(st, <<"sha256">>,
                         PairingCheck(t, mm.c, mm.fo, mm.p,
                             SecondChallenge(t, st.seed, mm.c, mm.fo, mm.p)),
                         "pc", "check"))

-----------------------------------------------------------------------------
-----------------------------------------------------------------------------
(* The calls of verify() that are explored                                 *)

\* the fields of a proof in the order of the template's layout
ProofFields(t) ==
    << "L_COM", "R_COM", "O_COM", "H_0", "H_1", "H_2",
       "L_AT_Z", "R_AT_Z", "O_AT_Z", "S1_AT_Z", "S2_AT_Z",
       "GRAND_PRODUCT", "GRAND_PRODUCT_AT_Z_OMEGA" >>
    \o (IF t.variant = "B"
        THEN << "QUOTIENT_POLY_AT_Z", "LINEAR_POLY_AT_Z" >> ELSE << >>)
    \o << "BATCH_OPENING_AT_Z", "OPENING_AT_Z_OMEGA" >>

IsPointField(nm) ==
    nm \in {"L_COM", "R_COM", "O_COM", "H_0", "H_1", "H_2", "GRAND_PRODUCT",
            "BATCH_OPENING_AT_Z", "OPENING_AT_Z_OMEGA"}

\* bytes of a point field: k*G for k < R_MOD; R_MOD stands for the point at
\* infinity in gnark's flagged encoding, R_MOD + 1 for bytes off the curve
PointBytes(t, k) ==
    IF k < R_MOD THEN G1Bytes(k, t.coordLen)
    ELSE IF k = R_MOD THEN [bzero(2 * t.coordLen) EXCEPT ![1] = 128]
    ELSE PadLeft(<<1>>, t.coordLen) \o PadLeft(<<1>>, t.coordLen)

\* a 32-byte word: the value v, or 2^255 for R_MOD + 2
WordBytes(v) ==
    IF v < R_MOD + 2 THEN UInt256Bytes(v) ELSE [bzero(32) EXCEPT ![1] = 128]

\* the proof blob of n elements' worth whose fields are given by codes
\* (longer blobs are padded with zero words, shorter ones cut)
ProofBytes(t, codes, n) ==
    LET f == ProofFields(t)
        full == ConcatAll([i \in 1..Len(f) |->
                    IF IsPointField(f[i]) THEN PointBytes(t, codes[f[i]])
                    ELSE WordBytes(codes[f[i]])])
    IN  IF 32 * n <= Len(full) THEN SubSeq(full, 1, 32 * n)
        ELSE full \o bzero(32 * n - Len(full))

\* an argument of verify: the elements, after the length prefix where the
\* host convention has one
Argument(t, declared, body) ==
    IF t.array = "static" THEN body ELSE LengthPrefix(declared) \o body

\* field number i of base proof b
BaseCode(b, i) == (5 * i + 1 + 3 * b) % R_MOD

\* base proof b with field number i replaced by v (no field when i = 0)
ProofWith(t, b, i, v) ==
    LET f == ProofFields(t)
    IN  [nm \in {f[j] : j \in 1..Len(f)} |->
            LET j == CHOOSE k \in 1..Len(f) : f[k] = nm
            IN  IF j = i THEN v ELSE BaseCode(b, j)]

\* the proofs: a base proof with one field replaced
ProofCodes(t) ==
    { ProofWith(t, b, i, v) :
        b \in 0..1, i \in 1..Len(ProofFields(t)),
        v \in {0, 1, 6, R_MOD, R_MOD + 1, R_MOD + 2} }

\* the calls: every proof with in-range public inputs, the first base proof
\* with every pair of public inputs, and wrong declared or actual lengths
VerifyCalls(t) ==
    LET n == VkOf(t).NbPublicVariables
        base == ProofWith(t, 0, 0, 0)
        pubBytes(vs, k) == ConcatAll([i \in 1..k |-> WordBytes(vs[((i - 1) % n) + 1])])
        call(cs, dp, ap, vs, di, ai) ==
            [ proof |-> Argument(t, dp, ProofBytes(t, cs, ap)),
              pub |-> Argument(t, di, pubBytes(vs, ai)) ]
        Off == {-1, 0, 1}
    IN  { call(cs, t.words, t.words, <<2, 5>>, n, n) : cs \in ProofCodes(t) }
        \cup { call(base, t.words, t.words, <<v1, v2>>, n, n) :
                 v1 \in {0, 5, R_MOD, R_MOD + 2}, v2 \in {0, 12, R_MOD + 1} }
        \cup { call(base, t.words + d1, t.words + d2, <<2, 5>>, n + d3, n + d4) :
                 d1 \in Off, d2 \in Off, d3 \in Off, d4 \in Off }

\* the compiled verifiers: each smart contract with and without argument
\* validation by the router
Builds ==
    { Build(t, v) : t \in {TmplBn254, TmplScBls, TmplPuyaBls}, v \in BOOLEAN }
    \cup { Build(TmplLsBls, FALSE) }

VerInit ==
    /\ seed \in 0..MaxSeed
    /\ tmpl \in Builds
    /\ args \in VerifyCalls(tmpl)
    /\ m = [result |-> "none"]
    /\ ops = << >>
    /\ hashed = {}
    /\ ecin = {}
    /\ vpc = "start"

\* the run in the variables
Cur ==
    [ tmpl |-> tmpl, seed |-> seed, args |-> args, m |-> m, ops |-> ops,
      hashed |-> hashed, ecin |-> ecin, vpc |-> vpc ]

\* the step of verify() at position pc
StepAt(pc) ==
    /\ vpc = pc
    /\ \E n \in {VerifyStep(Cur)} :
          /\ m' = n.m /\ ops' = n.ops /\ hashed' = n.hashed
          /\ ecin' = n.ecin /\ vpc' = n.vpc
    /\ UNCHANGED <<seed, tmpl, args>>

-----------------------------------------------------------------------------
(* The logicsig and the smart contract of one key on the same arguments    *)

\* the state in which verify() is entered
StartOf(t, sd, a) ==
    [ tmpl |-> t, seed |-> sd, args |-> a, m |-> [result |-> "none"],
      ops |-> << >>, hashed |-> {}, ecin |-> {}, vpc |-> "start" ]

\* what a finished run leaves: its local variables, verdict included, and
\* its logs
Outcome(st) ==
    [ m |-> st.m, ops |-> st.ops, hashed |-> st.hashed, ecin |-> st.ecin ]

\* the calls with a proof of 33 words and public inputs of the expected
\* length, encoded as byte[32][]
EqCalls ==
    { c \in VerifyCalls(Build(TmplScBls, FALSE)) :
        /\ Len(c.proof) = 2 + 32 * 33
        /\ ArrayLength(TmplScBls, c.proof) = 33
        /\ Len(c.pub) = 2 + 32 * VkOf(TmplScBls).NbPublicVariables
        /\ ArrayLength(TmplScBls, c.pub) = VkOf(TmplScBls).NbPublicVariables }

EqInit ==
    /\ seed \in 0..MaxSeed
    /\ args \in EqCalls
    /\ tmpl = NoRead /\ m = NoRead /\ ops = << >> /\ hashed = {} /\ ecin = {}
    /\ vpc = "idle"
    /\ runLs = StartOf(Build(TmplLsBls, FALSE), seed, args)
    /\ runSc \in {StartOf(Build(TmplScBls, v), seed, args) : v \in BOOLEAN}
    /\ epc = "ready"

\* verify() has returned or aborted in run st
Finished(st) == st.vpc = "done"

\* the logicsig takes its next step
StepLogicSig ==
    /\ ~Finished(runLs)
    /\ \E n \in {VerifyStep(runLs)} :
          /\ runLs' = n
          /\ epc' = "running"
    /\ UNCHANGED <<runSc, verVars>>

\* the smart contract, called once the logicsig has run, takes its next step
StepSmartContract ==
    /\ Finished(runLs)
    /\ ~Finished(runSc)
    /\ \E n \in {VerifyStep(runSc)} :
          /\ runSc' = n
          /\ epc' = IF Finished(n) THEN "done" ELSE "running"
    /\ UNCHANGED <<runLs, verVars>>

-----------------------------------------------------------------------------
(* setup/setup.go: the embedded parameter files and their loader           *)

\* bound of the model: number of G1 points in the embedded BN254 pk.bin
\* (2^17 and more in the repository)
MaxPoints == 3

\* bound of the model: the G1 points of the Ethereum KZG ceremony file stand
\* at 2^3 for the 2^15 (32768) of the transcript the repository embeds, and
\* the circuits it is documented to support at half of that, 2^2 for 2^14
NumG1Powers == 8

\* the largest circuit the package documentation promises for BLS12-381
DocMaxConstraints == NumG1Powers \div 2

\* ecc.ID
CurveIds == {"UNKNOWN", "BN254", "BLS12_377", "BLS12_381"}

\* bls12381.SizeOfG1AffineCompressed, bn254.SizeOfG1AffineCompressed
SizeOfG1AffineCompressed(curve) == IF curve = "BN254" THEN 32 ELSE 48

\* binary.BigEndian.PutUint32 and binary.BigEndian.Uint32
PutUint32(v) ==
    << (v \div 16777216) % 256, (v \div 65536) % 256, (v \div 256) % 256, v % 256 >>

Uint32(b) == b[1] * 16777216 + b[2] * 65536 + b[3] * 256 + b[4]

\* compressed point number k of the file with tag tg
G1Element(tg, k, size) == [j \in 1..size |-> (tg + 31 * k + j) % 256]

RECURSIVE G1Elements(_, _, _)
G1Elements(tg, n, size) ==
    IF n = 0 THEN << >>
    ELSE G1Elements(tg, n - 1, size) \o G1Element(tg, n - 1, size)

\* a pk.bin: the 4-byte count, then the points
PkFile(tg, declared, actual, size) ==
    PutUint32(declared) \o G1Elements(tg, actual, size)

\* a vk.bin; the loader hands it over as it is
VkFile(tg) == <<tg, tg + 1, tg + 2, tg + 3>>

PkPath(filename) == filename \o "/pk.bin"
VkPath(filename) == filename \o "/vk.bin"

\* the files "go:embed" puts in the binary: the Ethereum and Dusk files as
\* the ceremonies published them, the BN254 file with any header and any
\* number of points
EmbeddedFiles(declared, actual) ==
    (PkPath("PerpetualPowersOfTauBN254") :> PkFile(10, declared, actual, 32))
    @@ (VkPath("PerpetualPowersOfTauBN254") :> VkFile(10))
    @@ (PkPath("EethereumKzgCeremonyBLS12_381")
          :> PkFile(20, NumG1Powers, NumG1Powers, 48))
    @@ (VkPath("EethereumKzgCeremonyBLS12_381") :> VkFile(20))
    @@ (PkPath("DuskBLS12_381") :> PkFile(30, 2, 2, 48))
    @@ (VkPath("DuskBLS12_381") :> VkFile(30))

\* a []byte: the first len bytes of a backing array, which is the array arr
\* of the embedded files or, when arr is "own", the array data of the slice
Slice_(arr, data, len) == [arr |-> arr, data |-> data, len |-> len]

NilSlice == Slice_("own", << >>, 0)

\* the bytes a slice shows
SliceBytes(sl, efs) ==
    SubSeq(IF sl.arr = "own" THEN sl.data ELSE efs[sl.arr], 1, sl.len)

\* embed.FS.ReadFile: a copy of the file's bytes, or an error
ReadFile_Aliased(efs, path) ==
    IF path \in DOMAIN efs
    THEN [err |-> "", slice |-> Slice_(path, << >>, Len(efs[path]))]
    ELSE [err |-> "file does not exist", slice |-> NilSlice]

ReadFile(efs, path) ==
    IF path \in DOMAIN efs
    THEN [err |-> "", slice |-> Slice_("own", efs[path], Len(efs[path]))]
    ELSE [err |-> "file does not exist", slice |-> NilSlice]

ErrTooFewPoints == "need at least 2 G1 points"
ErrOpening      == "error opening file"
ErrTooSmall     == "pk.bin too small"

\* a call of loadTrustedSetupBytes(filename, g1Count, g1CompressedSize) at
\* its entry; reads lists the paths it has read
LoadCall(filename, g1Count, g1CompressedSize) ==
    [ pc |-> "called", filename |-> filename, g1Count |-> g1Count,
      g1CompressedSize |-> g1CompressedSize,
      g1Bytes |-> NilSlice, vkBytes |-> NilSlice, err |-> "", reads |-> << >> ]

\* "return nil, nil, err" and "return g1Bytes, vkBytes, nil"
LoadFails(c, err) ==
    [c EXCEPT !.pc = "returned", !.err = err,
              !.g1Bytes = NilSlice, !.vkBytes = NilSlice]

LoadReturns(c) == [c EXCEPT !.pc = "returned"]

\* the count check and the first ReadFile
LoadReadPk_NoCountCheck(c, efs, r) ==
    IF r.err # ""
    THEN LoadFails([c EXCEPT !.reads = @ \o <<PkPath(c.filename)>>], ErrOpening)
    ELSE [c EXCEPT !.reads = @ \o <<PkPath(c.filename)>>,
                   !.g1Bytes = r.slice, !.pc = "readvk"]

LoadReadPk(c, efs, r) ==
    IF c.g1Count < 2 THEN LoadFails(c, ErrTooFewPoints)
    ELSE IF r.err # ""
    THEN LoadFails([c EXCEPT !.reads = @ \o <<PkPath(c.filename)>>], ErrOpening)
    ELSE [c EXCEPT !.reads = @ \o <<PkPath(c.filename)>>,
                   !.g1Bytes = r.slice, !.pc = "readvk"]

\* the second ReadFile
LoadReadVk(c, efs, r) ==
    IF r.err # ""
    THEN LoadFails([c EXCEPT !.reads = @ \o <<VkPath(c.filename)>>], ErrOpening)
    ELSE [c EXCEPT !.reads = @ \o <<VkPath(c.filename)>>,
                   !.vkBytes = r.slice, !.pc = "check"]

\* bytesNeeded, declaredG1Count, the size check and "g1Bytes[:bytesNeeded]";
\* a file without the 4 bytes of the count makes "g1Bytes[:4]" panic
LoadCheck_NoTruncate(c, efs, bytesNeeded) ==
    IF c.g1Bytes.len < 4 THEN LoadFails(c, Panic)
    ELSE IF \/ c.g1Bytes.len < bytesNeeded
            \/ Uint32(SubSeq(SliceBytes(c.g1Bytes, efs), 1, 4)) < c.g1Count
    THEN LoadFails(c, ErrTooSmall)
    ELSE [c EXCEPT !.pc = "put"]

LoadCheck(c, efs, bytesNeeded) ==
    IF c.g1Bytes.len < 4 THEN LoadFails(c, Panic)
    ELSE IF \/ c.g1Bytes.len < bytesNeeded
            \/ Uint32(SubSeq(SliceBytes(c.g1Bytes, efs), 1, 4)) < c.g1Count
    THEN LoadFails(c, ErrTooSmall)
    ELSE [c EXCEPT !.g1Bytes.len = bytesNeeded, !.pc = "put"]

\* a backing array with its first four bytes overwritten by hdr
WithHeader(array, hdr) == hdr \o SubSeq(array, 5, Len(array))

\* one step of the call c over the embedded files efs: the call and the
\* files after it. The last step, "binary.BigEndian.PutUint32(g1Bytes[:4],
\* uint32(g1Count))", writes into the backing array of g1Bytes
LoadStep(c, efs) ==
    CASE c.pc = "called" ->
           [c |-> LoadReadPk(c, efs, ReadFile(efs, PkPath(c.filename))), efs |-> efs]
      [] c.pc = "readvk" ->
           [c |-> LoadReadVk(c, efs, ReadFile(efs, VkPath(c.filename))), efs |-> efs]
      [] c.pc = "check" ->
           [c |-> LoadCheck(c, efs, 4 + c.g1Count * c.g1CompressedSize), efs |-> efs]
      [] c.pc = "put" ->
           IF c.g1Bytes.arr = "own"
           THEN [c |-> LoadReturns([c EXCEPT !.g1Bytes.data =
                                      WithHeader(@, PutUint32(c.g1Count))]),
                 efs |-> efs]
           ELSE [c |-> LoadReturns(c),
                 efs |-> [efs EXCEPT ![c.g1Bytes.arr] =
                                      WithHeader(@, PutUint32(c.g1Count))]]

\* the steps from r, a call and the files, to the return of the call
RECURSIVE RunLoad(_)
RunLoad(r) == IF r.c.pc = "returned" THEN r ELSE RunLoad(LoadStep(r.c, r.efs))

\* loadTrustedSetupBytes run from entry to return without interruption
loadTrustedSetupBytes(efs, filename, g1Count, g1CompressedSize) ==
    RunLoad([c |-> LoadCall(filename, g1Count, g1CompressedSize), efs |-> efs])

\* Setups: the table of the available setups; a name that is not in the map
\* reads as the zero Setup
SetupNames ==
    { "PerpetualPowersOfTauBN254", "EthereumKzgCeremonyBLS12381", "DuskBLS12381",
      "TestOnlyBN254", "TestOnlyBLS12381" }

Setups(name) ==
    CASE name = "PerpetualPowersOfTauBN254" ->
           [Curve |-> "BN254", NamePath |-> "PerpetualPowersOfTauBN254",
            Trusted |-> TRUE]
      [] name = "EthereumKzgCeremonyBLS12381" ->
           [Curve |-> "BLS12_381", NamePath |-> "EethereumKzgCeremonyBLS12_381",
            Trusted |-> TRUE]
      [] name = "DuskBLS12381" ->
           [Curve |-> "BLS12_381", NamePath |-> "DuskBLS12_381", Trusted |-> TRUE]
      [] name = "TestOnlyBN254" ->
           [Curve |-> "BN254", NamePath |-> "test_only", Trusted |-> FALSE]
      [] name = "TestOnlyBLS12381" ->
           [Curve |-> "BLS12_381", NamePath |-> "test_only", Trusted |-> FALSE]
      [] OTHER -> [Curve |-> "UNKNOWN", NamePath |-> "", Trusted |-> FALSE]

\* ecc.NextPowerOfTwo: the smallest power of two that is at least n
RECURSIVE PowerOfTwoFrom(_, _)
PowerOfTwoFrom(p, n) == IF p >= n THEN p ELSE PowerOfTwoFrom(2 * p, n)

NextPowerOfTwo(n) == PowerOfTwoFrom(1, n)

\* the SRS read from the bytes a load returned: the number of its G1 points
SrsOf(l) ==
    IF l.c.err # ""
    THEN [err |-> "error loading trusted setup files: " \o l.c.err,
          points |-> 0, efs |-> l.efs]
    ELSE [err |-> "",
          points |-> Uint32(SubSeq(SliceBytes(l.c.g1Bytes, l.efs), 1, 4)),
          efs |-> l.efs]

\* trustedSetupBLS12381 / trustedSetupBN254
trustedSetup(efs, size, setupName, curve) ==
    SrsOf(loadTrustedSetupBytes(efs, setupName, size,
                                SizeOfG1AffineCompressed(curve)))

\* fmt.Errorf("error creating SRS:  %v", err)
WrapSrsError(r) ==
    IF r.err = "" THEN r ELSE [r EXCEPT !.err = "error creating SRS:  " \o @]

\* setup.Run(ccs, setupConfig) for the setup st that the name selects: the
\* error, the number of points of the SRS handed to plonk.Setup, the files,
\* and where the SRS came from: unsafekzg.NewSRS or an embedded file
Run_FiveMore(efs, ccs, st) ==
    IF ~st.Trusted
    THEN [err |-> "", points |-> 0, efs |-> efs, srs |-> "unsafekzg"]
    ELSE IF st.Curve \notin {"BLS12_381", "BN254"}
    THEN [err |-> "unsupported curve", points |-> 0, efs |-> efs, srs |-> "none"]
    ELSE [srs |-> "embedded"] @@ WrapSrsError(
           trustedSetup(efs,
               NextPowerOfTwo(ccs.NbConstraints + ccs.NbPublicVariables) + 5,
               st.NamePath, st.Curve))

Run(efs, ccs, st) ==
    IF ~st.Trusted
    THEN [err |-> "", points |-> 0, efs |-> efs, srs |-> "unsafekzg"]
    ELSE IF st.Curve \notin {"BLS12_381", "BN254"}
    THEN [err |-> "unsupported curve", points |-> 0, efs |-> efs, srs |-> "none"]
    ELSE [srs |-> "embedded"] @@ WrapSrsError(
           trustedSetup(efs,
               NextPowerOfTwo(ccs.NbConstraints + ccs.NbPublicVariables) + 3,
               st.NamePath, st.Curve))

\* what Compile makes of the result r of setup.Run
Compiled(r, calls) ==
    IF r.err # ""
    THEN [cc |-> FALSE, err |-> "error setting up Plonk: " \o r.err,
          calls |-> calls, points |-> 0, efs |-> r.efs]
    ELSE [cc |-> TRUE, err |-> "", calls |-> calls, points |-> r.points,
          efs |-> r.efs]

\* Compile(circuit, curve, setupConfig): whether a CompiledCircuit is
\* returned, the error, the calls made to compile the circuit and to run a
\* setup, the files; circuit.ok is whether frontend.Compile accepts it
Compile_NoCurveMatch(efs, circuit, curve, setupConfig) ==
    IF curve \notin {"BN254", "BLS12_381"}
    THEN [cc |-> FALSE, err |-> "unsupported curve", calls |-> << >>,
          points |-> 0, efs |-> efs]
    ELSE IF ~circuit.ok
    THEN [cc |-> FALSE, err |-> "error compiling circuit",
          calls |-> <<"frontend.Compile">>, points |-> 0, efs |-> efs]
    ELSE Compiled(Run(efs, circuit, Setups(setupConfig)),
                  <<"frontend.Compile", "setup.Run">>)

Compile(efs, circuit, curve, setupConfig) ==
    IF curve \notin {"BN254", "BLS12_381"}
    THEN [cc |-> FALSE, err |-> "unsupported curve", calls |-> << >>,
          points |-> 0, efs |-> efs]
    ELSE IF curve # Setups(setupConfig).Curve
    THEN [cc |-> FALSE, err |-> "setup curve does not match circuit curve",
          calls |-> << >>, points |-> 0, efs |-> efs]
    ELSE IF ~circuit.ok
    THEN [cc |-> FALSE, err |-> "error compiling circuit",
          calls |-> <<"frontend.Compile">>, points |-> 0, efs |-> efs]
    ELSE Compiled(Run(efs, circuit, Setups(setupConfig)),
                  <<"frontend.Compile", "setup.Run">>)

\* the callers of the loader
Callers == {"a", "b"}

NoCall == [LoadCall("", 0, 0) EXCEPT !.pc = "idle"]

\* the loads that are explored: by file, the counts around 2 and around the
\* number of points the file may hold
LoadRequests ==
    { <<"PerpetualPowersOfTauBN254", n, 32>> : n \in 0..(MaxPoints + 1) }
    \cup { <<"EethereumKzgCeremonyBLS12_381", n, 48>> :
             n \in {2, NumG1Powers \div 2, NumG1Powers, NumG1Powers + 1} }
    \cup { <<"DuskBLS12_381", 2, 48>>, <<"test_only", 2, 48>> }

SetupInit ==
    /\ embedded \in { EmbeddedFiles(d, k) : d \in 0..MaxPoints, k \in 0..MaxPoints }
    /\ ld = [p \in Callers |-> NoCall]
    /\ comp = NoRead

\* caller p enters loadTrustedSetupBytes
CallLoad(p, filename, g1Count, g1CompressedSize) ==
    /\ ld[p].pc = "idle"
    /\ ld' = [ld EXCEPT ![p] = LoadCall(filename, g1Count, g1CompressedSize)]
    /\ UNCHANGED <<embedded, comp>>

\* the call of caller p takes its next step
StepLoad(p) ==
    /\ ld[p].pc \notin {"idle", "returned"}
    /\ \E n \in {LoadStep(ld[p], embedded)} :
          /\ ld' = [ld EXCEPT ![p] = n.c]
          /\ embedded' = n.efs
    /\ UNCHANGED comp

\* the circuits handed to Compile: frontend.Compile accepts them or not
Circuits ==
    { [NbConstraints |-> c, NbPublicVariables |-> v, ok |-> k] :
        c \in 1..DocMaxConstraints, v \in 0..2, k \in BOOLEAN }

CompileInit ==
    /\ embedded \in { EmbeddedFiles(k, k) : k \in 0..MaxPoints }
    /\ ld = NoRead
    /\ comp = [pc |-> "ready"]

\* algoplonk.Compile(circuit, curve, setupConfig)
CallCompile(circuit, curve, setupConfig) ==
    /\ comp.pc = "ready"
    /\ \E r \in {Compile(embedded, circuit, curve, setupConfig)} :
          /\ comp' = [ pc |-> "returned", circuit |-> circuit, curve |-> curve,
                       setupConfig |-> setupConfig, cc |-> r.cc, err |-> r.err,
                       calls |-> r.calls, points |-> r.points ]
          /\ embedded' = r.efs
    /\ UNCHANGED ld

\* setup.Run(ccs, setupConfig) called on its own: Setups[setupConfig] is the
\* zero Setup for a name that the table does not hold
CallRun(ccs, setupConfig) ==
    /\ comp.pc = "ready"
    /\ \E r \in {Run(embedded, ccs, Setups(setupConfig))} :
          /\ comp' = [ pc |-> "ran", circuit |-> ccs,
                       setupConfig |-> setupConfig, err |-> r.err,
                       points |-> r.points, srs |-> r.srs ]
          /\ embedded' = r.efs
    /\ UNCHANGED ld

-----------------------------------------------------------------------------
(* The smart-contract verifier as a deployed application: the ARC4 methods *)
(* create, update, make_immutable and verify of the template               *)

\* the accounts that send application calls
Senders == {"alice", "bob"}

\* the approval programs compiled from a generated verifier
Programs == {"verifier_v1", "verifier_v2"}

\* the on-completion actions of an application call
OnCompletions == {"NoOp", "OptIn", "UpdateApplication", "DeleteApplication"}

\* the @abimethod decorators of the contract: when the router lets a call
\* through to the method
AbiMethods ==
    [ create |-> [create |-> "require", allow_actions |-> {"NoOp"}],
      update |-> [create |-> "disallow",
                  allow_actions |-> {"UpdateApplication", "DeleteApplication"}],
      make_immutable |-> [create |-> "disallow", allow_actions |-> {"NoOp"}],
      verify |-> [create |-> "disallow", allow_actions |-> {"NoOp"}] ]

\* the methods a call may name: those of the contract and one it has not
MethodNames == DOMAIN AbiMethods \cup {"unknown"}

\* an application call: appId 0 creates the application; name is the
\* argument of create, proofVerifies what the arguments of verify lead to,
\* program the approval program sent along
AppCalls ==
    { tx \in [ sender : Senders, appId : {0, 1}, method : MethodNames,
               oc : OnCompletions, name : {"Verifier", ""}, program : Programs,
               proofVerifies : {"True", "False", "fail"} ] :
        /\ tx.method # "create" => tx.name = ""
        /\ tx.method # "verify" => tx.proofVerifies = "True" }

\* no application, and the global state before create has run
NoGlobals == [app_name |-> "unset", immutable |-> "unset"]

NoApp == [exists |-> FALSE, creator |-> "", program |-> "", g |-> NoGlobals]

\* what a method leaves: the global state, whether every assert passed, and
\* the value returned
Ran(g, ok, ret) == [g |-> g, ok |-> ok, ret |-> ret]

\* def create(self, name: String) -> None
create(g, tx) ==
    Ran([g EXCEPT !.app_name = tx.name, !.immutable = FALSE], TRUE, "")

\* update without "assert not self.immutable"
update_IgnoresImmutable(g, tx, creator) ==
    Ran(g, creator = tx.sender, "")

\* def update(self) -> None
update(g, tx, creator) ==
    IF g.immutable THEN Ran(g, FALSE, "")
    ELSE IF creator # tx.sender THEN Ran(g, FALSE, "")
    ELSE Ran(g, TRUE, "")

\* make_immutable without the assert on the sender
make_immutable_AnySender(g, tx, creator) ==
    Ran([g EXCEPT !.immutable = TRUE], TRUE, "")

\* def make_immutable(self) -> None
make_immutable(g, tx, creator) ==
    IF creator # tx.sender THEN Ran(g, FALSE, "")
    ELSE Ran([g EXCEPT !.immutable = TRUE], TRUE, "")

\* def verify(self, proof, public_inputs) -> arc4.Bool, as the application
\* sees it: it reads and writes no global state and returns the verdict, or
\* fails on an assert or an opcode
VerifyMethod(g, tx) ==
    Ran(g, tx.proofVerifies # "fail",
        IF tx.proofVerifies = "fail" THEN "" ELSE tx.proofVerifies)

\* the router lets the call through to the method it names
Routed(tx) ==
    /\ tx.method \in DOMAIN AbiMethods
    /\ tx.oc \in AbiMethods[tx.method].allow_actions
    /\ (tx.appId = 0) <=> (AbiMethods[tx.method].create = "require")

\* the approval program on call tx of the application of creator
ApprovalProgram(g, tx, creator) ==
    IF ~Routed(tx) THEN Ran(g, FALSE, "")
    ELSE CASE tx.method = "create" -> create(g, tx)
           [] tx.method = "update" -> update(g, tx, creator)
           [] tx.method = "make_immutable" -> make_immutable(g, tx, creator)
           [] tx.method = "verify" -> VerifyMethod(g, tx)

\* the ledger evaluates call tx on application a: a failed call changes
\* nothing; a successful one keeps the global state the program left and
\* then creates, updates or deletes the application as tx asks
Evaluate(a, tx) ==
    LET creator == IF tx.appId = 0 THEN tx.sender ELSE a.creator
        r == ApprovalProgram(a.g, tx, creator)
    IN  IF (tx.appId # 0 /\ ~a.exists) \/ ~r.ok
        THEN [app |-> a, ok |-> FALSE, ret |-> ""]
        ELSE [ app |->
                 CASE tx.appId = 0 ->
                        [exists |-> TRUE, creator |-> tx.sender,
                         program |-> tx.program, g |-> r.g]
                   [] tx.oc = "UpdateApplication" ->
                        [a EXCEPT !.program = tx.program, !.g = r.g]
                   [] tx.oc = "DeleteApplication" -> NoApp
                   [] OTHER -> [a EXCEPT !.g = r.g],
               ok |-> TRUE, ret |-> r.ret ]

AppInit ==
    /\ app = NoApp
    /\ txn = [none |-> TRUE]

\* call tx is sent and evaluated; a creation is the deployment of the
\* application, which happens while there is none
Call(tx) ==
    /\ tx.appId = 0 => ~app.exists
    /\ \E r \in {Evaluate(app, tx)} :
          /\ app' = r.app
          /\ txn' = [ok |-> r.ok, ret |-> r.ret] @@ tx
    /\ UNCHANGED <<encVars, miscVars>>

-----------------------------------------------------------------------------
(* utils/utils.go: the encoders of proof and public inputs as application  *)
(* arguments                                                               *)

\* the number of elements from which abi.Type.Encode refuses a dynamic
\* array, its tuple of elements having no uint16 count (math.MaxUint16,
\* scaled down)
AbiMaxTupleLen == 3

\* fmt.Errorf("proof and public inputs must be 32-byte aligned")
ErrNotAligned == "proof and public inputs must be 32-byte aligned"

\* the errors of AbiEncodeProofAndPublicInputs when encodeARC4 fails
ErrEncodeProof == "failed to encode proof: failed to encode ARC4 array"
ErrEncodePublicInputs == "failed to encode public inputs: failed to encode ARC4 array"

\* what a call returned: the output (nil with an error), the error ("" for
\* nil), or a panic
Returns(out, err) == [out |-> out, err |-> err, panicked |-> FALSE]
Panics == [out |-> << >>, err |-> "", panicked |-> TRUE]

\* chunks(data) as the encoders call it: it panics on unaligned data
chunksOf(data) ==
    IF Len(data) % 32 # 0 THEN Panics ELSE Returns(chunks(data), "")

\* encodeARC4 with the element count in little-endian order
encodeARC4_LittleEndianCount(input) ==
    IF Len(input) >= AbiMaxTupleLen
       \/ \E i \in 1..Len(input) : Len(input[i]) # 32
    THEN Returns(<< >>, "failed to encode ARC4 array")
    ELSE Returns(<<Len(input) % 256, Len(input) \div 256>> \o ConcatAll(input), "")

\* encodeARC4(input): the "byte[32][]" encoding, a two-byte big-endian
\* count followed by the elements
encodeARC4(input) ==
    IF Len(input) >= AbiMaxTupleLen
       \/ \E i \in 1..Len(input) : Len(input[i]) # 32
    THEN Returns(<< >>, "failed to encode ARC4 array")
    ELSE Returns(LengthPrefix(Len(input)) \o ConcatAll(input), "")

\* ProofAndPublicInputsForAtomicComposer(proof, publicInputs)
ProofAndPublicInputsForAtomicComposer(pf, publicInputs) ==
    IF Len(pf) % 32 # 0 \/ Len(publicInputs) % 32 # 0
    THEN Returns(<< >>, ErrNotAligned)
    ELSE LET proofAbi == chunksOf(pf)
             publicInputsAbi == chunksOf(publicInputs)
         IN  IF proofAbi.panicked \/ publicInputsAbi.panicked THEN Panics
             ELSE Returns(<<proofAbi.out, publicInputsAbi.out>>, "")

\* the alignment test with "&&" for "||"
AbiEncodeProofAndPublicInputs_BothUnaligned(pf, publicInputs) ==
    IF Len(pf) % 32 # 0 /\ Len(publicInputs) % 32 # 0
    THEN Returns(<< >>, ErrNotAligned)
    ELSE LET proofAbi == chunksOf(pf)
             publicInputsAbi == chunksOf(publicInputs)
         IN  IF proofAbi.panicked \/ publicInputsAbi.panicked THEN Panics
             ELSE IF encodeARC4(proofAbi.out).err # ""
             THEN Returns(<< >>, ErrEncodeProof)
             ELSE IF encodeARC4(publicInputsAbi.out).err # ""
             THEN Returns(<< >>, ErrEncodePublicInputs)
             ELSE Returns(<<encodeARC4(proofAbi.out).out,
                            encodeARC4(publicInputsAbi.out).out>>, "")

\* AbiEncodeProofAndPublicInputs(proof, publicInputs)
AbiEncodeProofAndPublicInputs(pf, publicInputs) ==
    IF Len(pf) % 32 # 0 \/ Len(publicInputs) % 32 # 0
    THEN Returns(<< >>, ErrNotAligned)
    ELSE LET proofAbi == chunksOf(pf)
             publicInputsAbi == chunksOf(publicInputs)
         IN  IF proofAbi.panicked \/ publicInputsAbi.panicked THEN Panics
             ELSE IF encodeARC4(proofAbi.out).err # ""
             THEN Returns(<< >>, ErrEncodeProof)
             ELSE IF encodeARC4(publicInputsAbi.out).err # ""
             THEN Returns(<< >>, ErrEncodePublicInputs)
             ELSE Returns(<<encodeARC4(proofAbi.out).out,
                            encodeARC4(publicInputsAbi.out).out>>, "")

\* a blob of n bytes
Blob(n, first) == [i \in 1..n |-> (first + 7 * i) % 256]

\* the lengths of the blobs handed to the encoders: around each multiple of
\* 32 up to one element more than a dynamic array takes
BlobLengths ==
    {0, 1} \cup UNION { {32 * k - 1, 32 * k, 32 * k + 1} : k \in 1..AbiMaxTupleLen }
    \cup {32 * (AbiMaxTupleLen + 1)}

EncInit ==
    enc \in { [pc |-> "ready", proof |-> Blob(n, 1), publicInputs |-> Blob(k, 2)] :
                n \in BlobLengths, k \in BlobLengths }

\* the caller hands its two blobs to one of the encoders
CallEncoder(fn, r) ==
    /\ enc.pc = "ready"
    /\ enc' = [enc EXCEPT !.pc = "returned"] @@ [fn |-> fn] @@ r
    /\ UNCHANGED <<appVars, miscVars>>

CallAbiEncode ==
    CallEncoder("AbiEncodeProofAndPublicInputs",
                AbiEncodeProofAndPublicInputs(enc.proof, enc.publicInputs))

CallForAtomicComposer ==
    CallEncoder("ProofAndPublicInputsForAtomicComposer",
                ProofAndPublicInputsForAtomicComposer(enc.proof, enc.publicInputs))

-----------------------------------------------------------------------------
(* helper.go: the public inputs of a witness                               *)

\* the values of witness variables that are explored
WitnessValues == {0, 5, R_MOD - 1}

\* the vectors of at most n witness values
RECURSIVE VectorsUpTo(_)
VectorsUpTo(n) ==
    IF n = 0 THEN { << >> }
    ELSE VectorsUpTo(n - 1)
         \cup { Append(v, x) : v \in { w \in VectorsUpTo(n - 1) : Len(w) = n - 1 },
                               x \in WitnessValues }

\* the longest public and secret parts of a witness
MaxVars == 2

\* a gnark witness: the public variables, then the secret ones, in the
\* order of the circuit definition
MkWitness(pub, sec) ==
    [nbPublic |-> Len(pub), nbSecret |-> Len(sec), vector |-> pub \o sec]

\* witness.Public(): the public projection
Public(w) ==
    [nbPublic |-> w.nbPublic, nbSecret |-> 0,
     vector |-> SubSeq(w.vector, 1, w.nbPublic)]

\* MarshalBinary: three big-endian uint32 counts (public, secret, total),
\* then each variable at the width of the field modulus
MarshalBinary(w) ==
    PutUint32(w.nbPublic) \o PutUint32(w.nbSecret) \o PutUint32(Len(w.vector))
    \o ConcatAll([i \in 1..Len(w.vector) |-> UInt256Bytes(w.vector[i])])

\* extractPublicInputs marshalling the witness itself
extractPublicInputs_WholeWitness(w, publicFails, marshalFails) ==
    IF publicFails THEN Returns(<< >>, "error extracting public witness")
    ELSE IF marshalFails THEN Returns(<< >>, "error marshaling public witness")
    ELSE Returns(Slice(MarshalBinary(w), 12, Len(MarshalBinary(w))), "")

\* extractPublicInputs(witness); publicFails and marshalFails say whether
\* witness.Public() and public.MarshalBinary() return an error
extractPublicInputs(w, publicFails, marshalFails) ==
    IF publicFails THEN Returns(<< >>, "error extracting public witness")
    ELSE IF marshalFails THEN Returns(<< >>, "error marshaling public witness")
    ELSE Returns(Slice(MarshalBinary(Public(w)), 12,
                       Len(MarshalBinary(Public(w)))), "")

WitInit ==
    /\ wit \in { [pc |-> "ready", witness |-> MkWitness(pub, sec)] :
                   pub \in VectorsUpTo(MaxVars), sec \in VectorsUpTo(MaxVars) }
    /\ rc = NoRead /\ calc = NoRead

\* the call of extractPublicInputs on the witness
CallExtractPublicInputs(publicFails, marshalFails) ==
    /\ wit.pc = "ready"
    /\ wit' = [wit EXCEPT !.pc = "returned"]
              @@ [publicFails |-> publicFails, marshalFails |-> marshalFails]
              @@ extractPublicInputs(wit.witness, publicFails, marshalFails)
    /\ UNCHANGED <<rc, calc, appVars, encVars>>

-----------------------------------------------------------------------------
(* utils/utils.go: ShouldRecompile                                         *)

\* the latest modification time of a file
MaxTime == 3

\* the paths of the target and of the source files
RcPaths == {"target", "a.go", "b.go"}

\* what os.Stat finds at a path: an error, or the modification time
StatResults == {[ok |-> FALSE, mod |-> 0]} \cup {[ok |-> TRUE, mod |-> t] : t \in 1..MaxTime}

\* the source lists of a call: none, one or two paths
SourceLists ==
    { << >> } \cup { <<x>> : x \in RcPaths \ {"target"} }
    \cup { <<x, y>> : x \in RcPaths \ {"target"}, y \in RcPaths \ {"target"} }

\* the loop over sourcePaths: true at the first source that cannot be
\* inspected or was modified after the target
RECURSIVE ScanSources(_, _, _)
ScanSources(fsys, targetModTime, sourcePaths) ==
    IF sourcePaths = << >> THEN FALSE
    ELSE LET sourceFile == fsys[Head(sourcePaths)]
         IN  IF ~sourceFile.ok THEN TRUE
             ELSE IF sourceFile.mod > targetModTime THEN TRUE
             ELSE ScanSources(fsys, targetModTime, Tail(sourcePaths))

\* the loop with targetModTime.After(sourceModTime) as its test
RECURSIVE ScanSources_TargetAfter(_, _, _)
ScanSources_TargetAfter(fsys, targetModTime, sourcePaths) ==
    IF sourcePaths = << >> THEN FALSE
    ELSE LET sourceFile == fsys[Head(sourcePaths)]
         IN  IF ~sourceFile.ok THEN TRUE
             ELSE IF targetModTime > sourceFile.mod THEN TRUE
             ELSE ScanSources_TargetAfter(fsys, targetModTime, Tail(sourcePaths))

\* ShouldRecompile with the comparison the other way round
ShouldRecompile_TargetAfter(fsys, targetPath, sourcePaths) ==
    IF ~fsys[targetPath].ok THEN TRUE
    ELSE ScanSources_TargetAfter(fsys, fsys[targetPath].mod, sourcePaths)

\* ShouldRecompile(targetPath, sourcePaths...)
ShouldRecompile(fsys, targetPath, sourcePaths) ==
    IF ~fsys[targetPath].ok THEN TRUE
    ELSE ScanSources(fsys, fsys[targetPath].mod, sourcePaths)

RcInit ==
    /\ rc \in { [pc |-> "ready", fsys |-> f, sourcePaths |-> l] :
                  f \in [RcPaths -> StatResults], l \in SourceLists }
    /\ wit = NoRead /\ calc = NoRead

\* the call ShouldRecompile("target", sourcePaths...)
CallShouldRecompile ==
    /\ rc.pc = "ready"
    /\ rc' = [rc EXCEPT !.pc = "returned"]
             @@ [result |-> ShouldRecompile(rc.fsys, "target", rc.sourcePaths)]
    /\ UNCHANGED <<wit, calc, appVars, encVars>>

-----------------------------------------------------------------------------
(* The subroutines invert and expmod called on their own                   *)

\* the largest base and exponent handed to expmod
MaxBase == 14
MaxExponent == 12

\* the points handed to invert: every point of the group, at the coordinate
\* width of each template
InvertCalls ==
    { [pc |-> "ready", fn |-> "invert", t |-> t, p |-> G1Bytes(k, t.coordLen)] :
        t \in {TmplBn254, TmplScBls, TmplLsBls, TmplPuyaBls}, k \in 0..(R_MOD - 1) }

ExpmodCalls ==
    { [pc |-> "ready", fn |-> "expmod", base |-> b, exponent |-> e, modulus |-> md] :
        b \in 0..MaxBase, e \in 0..MaxExponent, md \in 2..R_MOD }

\* "invert(p)"
CallInvert ==
    /\ calc.pc = "ready" /\ calc.fn = "invert"
    /\ calc' = [calc EXCEPT !.pc = "returned"]
               @@ [result |-> invert(calc.t, calc.p)]
    /\ UNCHANGED <<wit, rc, appVars, encVars>>

\* "expmod(base, exponent, modulus)"
CallExpmod ==
    /\ calc.pc = "ready" /\ calc.fn = "expmod"
    /\ calc' = [calc EXCEPT !.pc = "returned"]
               @@ [result |-> expmod(calc.base, calc.exponent, calc.modulus)]
    /\ UNCHANGED <<wit, rc, appVars, encVars>>

-----------------------------------------------------------------------------
(* verify(): the interpolation of the public inputs, loop by loop          *)

\* the largest number of public inputs of a run
MaxPub == 3

\* the public inputs that are explored
PubValues == {0, 1, 5, R_MOD - 1}

RECURSIVE PubVectors(_)
PubVectors(n) ==
    IF n = 0 THEN { << >> }
    ELSE { Append(v, x) : v \in PubVectors(n - 1), x \in PubValues }

\* the runs: a challenge zeta and the public inputs, for the key of TmplScBls
BatchRuns ==
    { [pc |-> "ready", fn |-> "PI", zeta |-> z, public_inputs |-> v] :
        z \in 0..(R_MOD - 1), v \in UNION { PubVectors(n) : n \in 0..MaxPub } }

\* "for i in urange(VK_NB_PUBLIC_INPUTS): x = (zeta + q - w_) % q ..."
RECURSIVE BuildBatch(_, _, _, _)
BuildBatch(zeta, w_, omega, n) ==
    IF n = 0 THEN << >>
    ELSE << (zeta + R_MOD - w_) % R_MOD >>
         \o BuildBatch(zeta, (w_ * omega) % R_MOD, omega, n - 1)

\* "for x256 in batch: y = (x * prev) % q; temp.append(UInt256(y)); prev = y"
RECURSIVE ForwardPass(_, _)
ForwardPass(batch, temp) ==
    IF batch = << >> THEN temp
    ELSE ForwardPass(Tail(batch),
                     Append(temp, (Head(batch) * temp[Len(temp)]) % R_MOD))

\* one round of "while i > 0" that leaves inv as it is
BackwardRound_KeepsInv(c) ==
    [c EXCEPT !.batch[c.i] = (c.inv * c.temp[c.i]) % R_MOD,
              !.i = c.i - 1]

\* one round of "while i > 0": tmp = batch[i-1]; cur = inv * temp[i-1];
\* batch[i-1] = cur; inv = inv * tmp; i -= 1
BackwardRound(c) ==
    [c EXCEPT !.batch[c.i] = (c.inv * c.temp[c.i]) % R_MOD,
              !.inv = (c.inv * c.batch[c.i]) % R_MOD,
              !.i = c.i - 1]

\* the two loops after the inversion without the factor w_
RECURSIVE Interpolate_NoOmega(_, _, _, _, _)
Interpolate_NoOmega(batch, public_inputs, zn, w_, omega) ==
    IF batch = << >> THEN 0
    ELSE LET lagrange == (Head(batch) * zn) % R_MOD
             tmp == (lagrange * Head(public_inputs)) % R_MOD
         IN  (Interpolate_NoOmega(Tail(batch), Tail(public_inputs), zn,
                                  (w_ * omega) % R_MOD, omega) + tmp) % R_MOD

\* "batch[i] = (w_ * ((batch[i] * zn) % q)) % q" and "tmp = batch[i] *
\* public_inputs[i] % q; PI = (PI + tmp) % q"
RECURSIVE Interpolate(_, _, _, _, _)
Interpolate(batch, public_inputs, zn, w_, omega) ==
    IF batch = << >> THEN 0
    ELSE LET lagrange == (w_ * ((Head(batch) * zn) % R_MOD)) % R_MOD
             tmp == (lagrange * Head(public_inputs)) % R_MOD
         IN  (Interpolate(Tail(batch), Tail(public_inputs), zn,
                          (w_ * omega) % R_MOD, omega) + tmp) % R_MOD

\* Zz, zn and the batch of the differences zeta - omega^i
StartBatch ==
    /\ calc.pc = "ready" /\ calc.fn = "PI"
    /\ \E vk \in {VkOf(TmplScBls)} :
       \E Zz \in {(expmod(calc.zeta, vk.Size, R_MOD) + R_MOD - 1) % R_MOD} :
       \E b \in {BuildBatch(calc.zeta, 1, vk.Generator, Len(calc.public_inputs))} :
          calc' = [calc EXCEPT !.pc = "forward"]
                  @@ [zn |-> (Zz * vk.SizeInv) % R_MOD, omega |-> vk.Generator,
                      orig |-> b, batch |-> b, temp |-> << >>, inv |-> 0, i |-> 0,
                      inversions |-> 0, PI |-> 0]
    /\ UNCHANGED <<wit, rc, appVars, encVars>>

\* the forward pass of the running products
RunForwardPass ==
    /\ calc.pc = "forward"
    /\ calc' = [calc EXCEPT !.pc = "invert",
                            !.temp = ForwardPass(calc.batch, <<1>>)]
    /\ UNCHANGED <<wit, rc, appVars, encVars>>

\* "inv = expmod(prev, q - BigUInt(2), q)" and "i = VK_NB_PUBLIC_INPUTS"
InvertProduct ==
    /\ calc.pc = "invert"
    /\ calc' = [calc EXCEPT !.pc = "backward",
                            !.inv = expmod(calc.temp[Len(calc.temp)],
                                           R_MOD - 2, R_MOD),
                            !.inversions = @ + 1,
                            !.i = Len(calc.batch)]
    /\ UNCHANGED <<wit, rc, appVars, encVars>>

\* one round of the backward pass
StepBackward ==
    /\ calc.pc = "backward" /\ calc.i > 0
    /\ calc' = BackwardRound(calc)
    /\ UNCHANGED <<wit, rc, appVars, encVars>>

\* the backward pass is over: the interpolation
RunInterpolate ==
    /\ calc.pc = "backward" /\ calc.i = 0
    /\ calc' = [calc EXCEPT !.pc = "returned",
                            !.PI = Interpolate(calc.batch, calc.public_inputs,
                                               calc.zn, 1, calc.omega)]
    /\ UNCHANGED <<wit, rc, appVars, encVars>>

-----------------------------------------------------------------------------
(* Specifications: each runs one machine and leaves the others idle        *)

VerIdle ==
    /\ seed = 0 /\ tmpl = NoRead /\ args = NoRead /\ m = NoRead
    /\ ops = << >> /\ hashed = {} /\ ecin = {} /\ vpc = "idle"

EqIdle == runLs = NoRead /\ runSc = NoRead /\ epc = "idle"

SetupIdle == embedded = NoRead /\ ld = NoRead /\ comp = NoRead

AppIdle == app = NoRead /\ txn = NoRead

EncIdle == enc = NoRead

MiscIdle == wit = NoRead /\ rc = NoRead /\ calc = NoRead

RestIdle == AppIdle /\ EncIdle /\ MiscIdle

LibIdle == SetupIdle /\ RestIdle

InitMarshal ==
    /\ proof \in ProofObjects /\ res = << >> /\ rd = NoRead /\ cpc = "new"
    /\ GenIdle /\ VerIdle /\ EqIdle /\ LibIdle

NextMarshal ==
    \/ MarshalProof /\ UNCHANGED <<genVars, verVars, eqVars, libVars>>
    \/ TemplateRead /\ UNCHANGED <<genVars, verVars, eqVars, libVars>>
    \/ TemplateRefuse /\ UNCHANGED <<genVars, verVars, eqVars, libVars>>

SpecMarshal == InitMarshal /\ [][NextMarshal]_vars

InitGen == GenInit /\ CodecIdle /\ VerIdle /\ EqIdle /\ LibIdle

NextGen ==
    \/ \E k \in {"LogicSig", "SmartContract"} :
          CallWritePythonCode(k) /\ UNCHANGED <<codecVars, verVars, eqVars, libVars>>
    \/ \E k \in {"LogicSig", "SmartContract"} :
          CallWritePythonCodeAgain(k) /\ UNCHANGED <<codecVars, verVars, eqVars, libVars>>
    \/ \E k \in {"LogicSig", "SmartContract"}, ok \in BOOLEAN :
          CallWritePuyaPyVerifier(k, ok)
          /\ UNCHANGED <<codecVars, verVars, eqVars, libVars>>

SpecGen == InitGen /\ [][NextGen]_vars

InitVerify == VerInit /\ CodecIdle /\ GenIdle /\ EqIdle /\ LibIdle

\* verify(): the length assertions, reading the proof, the range checks,
\* the challenges, the scalar part, the commitments, the fold, the pairing
NextVerify ==
    \/ StepAt("start") /\ UNCHANGED <<codecVars, genVars, eqVars, libVars>>
    \/ StepAt("read") /\ UNCHANGED <<codecVars, genVars, eqVars, libVars>>
    \/ StepAt("range") /\ UNCHANGED <<codecVars, genVars, eqVars, libVars>>
    \/ StepAt("challenges") /\ UNCHANGED <<codecVars, genVars, eqVars, libVars>>
    \/ StepAt("scalars") /\ UNCHANGED <<codecVars, genVars, eqVars, libVars>>
    \/ StepAt("commit") /\ UNCHANGED <<codecVars, genVars, eqVars, libVars>>
    \/ StepAt("fold") /\ UNCHANGED <<codecVars, genVars, eqVars, libVars>>
    \/ StepAt("pairing") /\ UNCHANGED <<codecVars, genVars, eqVars, libVars>>

SpecVerify == InitVerify /\ [][NextVerify]_vars

InitEq == EqInit /\ CodecIdle /\ GenIdle /\ LibIdle

NextEq ==
    \/ StepLogicSig /\ UNCHANGED <<codecVars, genVars, libVars>>
    \/ StepSmartContract /\ UNCHANGED <<codecVars, genVars, libVars>>

SpecEq == InitEq /\ [][NextEq]_vars

InitSetup == SetupInit /\ CodecIdle /\ GenIdle /\ VerIdle /\ EqIdle /\ RestIdle

\* two callers of the loader, each step of one interleaved with the other's
NextSetup ==
    \/ \E p \in Callers, q \in LoadRequests :
          CallLoad(p, q[1], q[2], q[3])
          /\ UNCHANGED <<codecVars, genVars, verVars, eqVars, restVars>>
    \/ \E p \in Callers :
          StepLoad(p) /\ UNCHANGED <<codecVars, genVars, verVars, eqVars, restVars>>

SpecSetup == InitSetup /\ [][NextSetup]_vars

InitCompile == CompileInit /\ CodecIdle /\ GenIdle /\ VerIdle /\ EqIdle /\ RestIdle

NextCompile ==
    \/ \E c \in Circuits, curve \in CurveIds, nm \in SetupNames \cup {"Name(5)"} :
          CallCompile(c, curve, nm)
          /\ UNCHANGED <<codecVars, genVars, verVars, eqVars, restVars>>
    \/ \E c \in {x \in Circuits : x.ok}, nm \in SetupNames \cup {"Name(5)"} :
          CallRun(c, nm)
          /\ UNCHANGED <<codecVars, genVars, verVars, eqVars, restVars>>

SpecCompile == InitCompile /\ [][NextCompile]_vars

InitApp ==
    /\ AppInit /\ EncIdle /\ MiscIdle
    /\ CodecIdle /\ GenIdle /\ VerIdle /\ EqIdle /\ SetupIdle

\* application calls by method, from any sender and with any on-completion
NextApp ==
    \/ \E tx \in AppCalls : tx.method = "create" /\ Call(tx)
          /\ UNCHANGED <<codecVars, genVars, verVars, eqVars, setupVars>>
    \/ \E tx \in AppCalls : tx.method = "update" /\ Call(tx)
          /\ UNCHANGED <<codecVars, genVars, verVars, eqVars, setupVars>>
    \/ \E tx \in AppCalls : tx.method = "make_immutable" /\ Call(tx)
          /\ UNCHANGED <<codecVars, genVars, verVars, eqVars, setupVars>>
    \/ \E tx \in AppCalls : tx.method = "verify" /\ Call(tx)
          /\ UNCHANGED <<codecVars, genVars, verVars, eqVars, setupVars>>
    \/ \E tx \in AppCalls : tx.method = "unknown" /\ Call(tx)
          /\ UNCHANGED <<codecVars, genVars, verVars, eqVars, setupVars>>

SpecApp == InitApp /\ [][NextApp]_vars

InitEnc ==
    /\ EncInit /\ AppIdle /\ MiscIdle
    /\ CodecIdle /\ GenIdle /\ VerIdle /\ EqIdle /\ SetupIdle

NextEnc ==
    \/ CallAbiEncode
          /\ UNCHANGED <<codecVars, genVars, verVars, eqVars, setupVars>>
    \/ CallForAtomicComposer
          /\ UNCHANGED <<codecVars, genVars, verVars, eqVars, setupVars>>

SpecEnc == InitEnc /\ [][NextEnc]_vars

InitWit ==
    /\ WitInit /\ AppIdle /\ EncIdle
    /\ CodecIdle /\ GenIdle /\ VerIdle /\ EqIdle /\ SetupIdle

NextWit ==
    \E publicFails \in BOOLEAN, marshalFails \in BOOLEAN :
        CallExtractPublicInputs(publicFails, marshalFails)
        /\ UNCHANGED <<codecVars, genVars, verVars, eqVars, setupVars>>

SpecWit == InitWit /\ [][NextWit]_vars

InitRecompile ==
    /\ RcInit /\ AppIdle /\ EncIdle
    /\ CodecIdle /\ GenIdle /\ VerIdle /\ EqIdle /\ SetupIdle

NextRecompile ==
    CallShouldRecompile
    /\ UNCHANGED <<codecVars, genVars, verVars, eqVars, setupVars>>

SpecRecompile == InitRecompile /\ [][NextRecompile]_vars

InitMath ==
    /\ calc \in InvertCalls \cup ExpmodCalls \cup BatchRuns
    /\ wit = NoRead /\ rc = NoRead /\ AppIdle /\ EncIdle
    /\ CodecIdle /\ GenIdle /\ VerIdle /\ EqIdle /\ SetupIdle

NextMath ==
    \/ CallInvert /\ UNCHANGED <<codecVars, genVars, verVars, eqVars, setupVars>>
    \/ CallExpmod /\ UNCHANGED <<codecVars, genVars, verVars, eqVars, setupVars>>
    \/ StartBatch /\ UNCHANGED <<codecVars, genVars, verVars, eqVars, setupVars>>
    \/ RunForwardPass
          /\ UNCHANGED <<codecVars, genVars, verVars, eqVars, setupVars>>
    \/ InvertProduct
          /\ UNCHANGED <<codecVars, genVars, verVars, eqVars, setupVars>>
    \/ StepBackward /\ UNCHANGED <<codecVars, genVars, verVars, eqVars, setupVars>>
    \/ RunInterpolate
          /\ UNCHANGED <<codecVars, genVars, verVars, eqVars, setupVars>>

SpecMath == InitMath /\ [][NextMath]_vars

-----------------------------------------------------------------------------
(* Properties of the proof encoder                                         *)

\* words lo..hi (0-based, inclusive) of a byte string
Words(b, lo, hi) == SubSeq(b, 32 * lo + 1, 32 * (hi + 1))

\* the layout of the encoding, word by word
LayoutOf(p, b) ==
    /\ Len(b) = 35 * 32
    /\ Words(b, 0, 2) = RawBytes(p.LRO[1])
    /\ Words(b, 3, 5) = RawBytes(p.LRO[2])
    /\ Words(b, 6, 8) = RawBytes(p.LRO[3])
    /\ Words(b, 9, 11) = RawBytes(p.H[1])
    /\ Words(b, 12, 14) = RawBytes(p.H[2])
    /\ Words(b, 15, 17) = RawBytes(p.H[3])
    /\ \A i \in 0..4 : Words(b, 18 + i, 18 + i) = FrBytes(p.BatchedProof.ClaimedValues[3 + i])
    /\ Words(b, 23, 25) = RawBytes(p.Z)
    /\ Words(b, 26, 26) = FrBytes(p.ZShiftedOpening.ClaimedValue)
    /\ Words(b, 27, 27) = FrBytes(p.BatchedProof.ClaimedValues[1])
    /\ Words(b, 28, 28) = FrBytes(p.BatchedProof.ClaimedValues[2])
    /\ Words(b, 29, 31) = RawBytes(p.BatchedProof.H)
    /\ Words(b, 32, 34) = RawBytes(p.ZShiftedOpening.H)

\* what the template holds under each name is the field of that name
ReadMatches(p, r) ==
    /\ r.L_COM = RawBytes(p.LRO[1])
    /\ r.R_COM = RawBytes(p.LRO[2])
    /\ r.O_COM = RawBytes(p.LRO[3])
    /\ r.H_0 = RawBytes(p.H[1])
    /\ r.H_1 = RawBytes(p.H[2])
    /\ r.H_2 = RawBytes(p.H[3])
    /\ r.L_AT_Z = FrBytes(p.BatchedProof.ClaimedValues[3])
    /\ r.R_AT_Z = FrBytes(p.BatchedProof.ClaimedValues[4])
    /\ r.O_AT_Z = FrBytes(p.BatchedProof.ClaimedValues[5])
    /\ r.S1_AT_Z = FrBytes(p.BatchedProof.ClaimedValues[6])
    /\ r.S2_AT_Z = FrBytes(p.BatchedProof.ClaimedValues[7])
    /\ r.GRAND_PRODUCT = RawBytes(p.Z)
    /\ r.GRAND_PRODUCT_AT_Z_OMEGA = FrBytes(p.ZShiftedOpening.ClaimedValue)
    /\ r.QUOTIENT_POLY_AT_Z = FrBytes(p.BatchedProof.ClaimedValues[1])
    /\ r.LINEAR_POLY_AT_Z = FrBytes(p.BatchedProof.ClaimedValues[2])
    /\ r.BATCH_OPENING_AT_Z = RawBytes(p.BatchedProof.H)
    /\ r.OPENING_AT_Z_OMEGA = RawBytes(p.ZShiftedOpening.H)

\* C1: a BLS12-381 proof without Bsb22 commitments is encoded as exactly 35
\* 32-byte words without a length prefix, in the order L, R, O (0-8), H0-H2
\* (9-17), l, r, o, s1, s2 at zeta (18-22), Z (23-25), z(zeta*omega) (26),
\* quotient and linearization evaluations (27, 28), batched opening proof
\* (29-31), shifted opening proof (32-34), and the Variant B template reads
\* each field from the word index at which the encoder put it.
C1_EncoderLayout ==
    (cpc # "new" /\ Len(proof.Bsb22Commitments) = 0) =>
        /\ LayoutOf(proof, res)
        /\ cpc # "refused"
        /\ (cpc = "read" => ReadMatches(proof, rd))

\* a proof without Bsb22 commitments whose L is the point at infinity was
\* encoded and read by the template; its evaluations at words 27 and 28 differ
C1_Witness ==
    /\ cpc = "read"
    /\ Len(proof.Bsb22Commitments) = 0
    /\ rd.QUOTIENT_POLY_AT_Z # rd.LINEAR_POLY_AT_Z
    /\ rd.L_COM[1] = 128

-----------------------------------------------------------------------------
(* Properties of the verifier generator                                    *)

\* the key is a non-nil key with a CommitmentConstraintIndexes []uint64 field
HasIndexList(vk) == ~vk.isNil /\ FieldIsU64(vk)

\* C6: WritePythonCode returns the custom-gates error and writes zero bytes
\* whenever the key's CommitmentConstraintIndexes is non-empty, for either
\* curve and either output kind.
C6_CustomGatesRejected ==
    (/\ gpc = "wrote"
     /\ HasIndexList(gvk)
     /\ Len(gvk.CommitmentConstraintIndexes) > 0)
    => (gerr = ErrCustomGates /\ gout = << >>)

\* a BLS12-381 key with one custom gate was refused for a logicsig
C6_Witness ==
    /\ gpc = "wrote"
    /\ gkind = "LogicSig"
    /\ gvk.type = "bls12381"
    /\ HasIndexList(gvk)
    /\ Len(gvk.CommitmentConstraintIndexes) = 1
    /\ gerr = ErrCustomGates
    /\ gout = << >>

\* C7: for a key of a type other than the BN254 and BLS12-381 key types,
\* WritePythonCode fails with the unsupported-curve error and writes nothing,
\* whatever the content of the key's custom-gate field.
C7_UnsupportedCurveWhateverGates ==
    (/\ gpc = "wrote"
     /\ HasIndexList(gvk)
     /\ gvk.type \notin {"bn254", "bls12381"})
    => (gerr = ErrUnsupportedCurve /\ gout = << >>)

\* C8: when WritePuyaPyVerifier fails with a configuration error (custom
\* gates or unsupported curve), no file is created at the target path and a
\* file already there keeps its content.
C8_ConfigErrorLeavesFiles ==
    [][(/\ gpc' = "filed"
        /\ gerr' \in {WrapWriteError(ErrCustomGates),
                      WrapWriteError(ErrUnsupportedCurve)})
       => files' = files]_vars

-----------------------------------------------------------------------------
(* Properties of the generated verifiers                                   *)

\* the proof and the public inputs have been read from the arguments
ArgsRead == vpc # "idle" /\ "p" \in DOMAIN m

\* some scalar of the proof or some public input is not below R_MOD
SomeScalarOutOfRange ==
    \/ \E i \in 1..Len(ProofScalars(tmpl, m.p)) :
          BigUIntFromBytes(ProofScalars(tmpl, m.p)[i]) >= R_MOD
    \/ \E i \in 1..Len(m.pub) : BigUIntFromBytes(m.pub[i]) >= R_MOD

\* C3: in every verifier, once the arguments are read, a proof scalar (l, r,
\* o, s1, s2 at zeta, z at zeta*omega, and in Variant B the quotient and
\* linearization evaluations) or a public input >= R_MOD makes verify return
\* False, not abort, and no hash or curve opcode is ever executed.
C3_OutOfRangeReturnsFalse ==
    (ArgsRead /\ SomeScalarOutOfRange) =>
        /\ ops = << >>
        /\ vpc \in {"range", "done"}
        /\ (vpc = "done" => m.result = "False")

\* a run returned False on a public input >= R_MOD, all proof scalars being
\* in range
C3_Witness ==
    /\ ArgsRead
    /\ vpc = "done"
    /\ m.result = "False"
    /\ ops = << >>
    /\ \E i \in 1..Len(m.pub) : BigUIntFromBytes(m.pub[i]) >= R_MOD
    /\ \A i \in 1..Len(ProofScalars(tmpl, m.p)) :
          BigUIntFromBytes(ProofScalars(tmpl, m.p)[i]) < R_MOD

\* C4: in the BLS12-381 verifiers every proof-supplied point that enters a
\* Fiat-Shamir hash (gamma, alpha, zeta, the opening-fold challenge, the
\* second folding challenge) is hashed as fs() of its bytes, i.e. with the
\* leading bit set when it is all zero, and every curve opcode receives the
\* unmasked bytes.
C4_AllHashedPointsMasked ==
    (ArgsRead /\ tmpl.useFs) =>
        /\ \A h \in hashed :
              h.bytes = IF m.p[h.pt] = bzero(96)
                        THEN <<128>> \o bzero(95) ELSE m.p[h.pt]
        /\ \A e \in ecin : e.bytes = m.p[e.pt]

\* the two sides of the quotient identity, from the values verify computed
QuotientLhs ==
    (Fr(m.p.LINEAR_POLY_AT_Z) + m.sc.PI + m.sc.perm + R_MOD - m.sc.alpha2Lagrange)
        % R_MOD
QuotientRhs ==
    (Fr(m.p.QUOTIENT_POLY_AT_Z)
       * ((expmod(m.c.zeta, VkOf(tmpl).Size, R_MOD) + R_MOD - 1) % R_MOD)) % R_MOD

\* C5: in the Variant B verifier, when (linearizationEval + PI +
\* permutationTerm - alpha^2 L1(zeta)) mod q differs from (quotientEval *
\* (zeta^n - 1)) mod q, verify returns False at once, and no curve opcode
\* (scalar multiplication, addition, pairing) has been executed.
C5_QuotientMismatchReturnsFalse ==
    (vpc # "idle" /\ tmpl.variant = "B" /\ "sc" \in DOMAIN m
       /\ QuotientLhs # QuotientRhs) =>
        /\ vpc = "done"
        /\ m.result = "False"
        /\ \A i \in 1..Len(ops) : ops[i] = "sha256"

\* a Variant B run with all scalars in range returned False on the quotient
\* identity, having executed the four challenge hashes only
C5_Witness ==
    /\ vpc = "done"
    /\ tmpl.variant = "B"
    /\ "sc" \in DOMAIN m
    /\ QuotientLhs # QuotientRhs
    /\ m.result = "False"
    /\ Len(ops) = 4

\* the number of 32-byte elements of the proof argument
ProofCount == Len(Elements(tmpl, args.proof)) \div 32

\* C9: a verifier processes a proof only if it has exactly 24 (BN254) or 35
\* (BLS12-381) elements under Variant B, and a smaller number under Variant A.
C9_CountsAsClaimed ==
    ArgsRead =>
        LET nB == IF tmpl.coordLen = 32 THEN 24 ELSE 35
        IN  /\ tmpl.variant = "B" => ProofCount = nB
            /\ tmpl.variant = "A" => ProofCount < nB

\* C9 as the templates have it: the Variant A verifiers read 24 (BN254) and
\* 33 (BLS12-381) elements, the Variant B verifier 35 (BLS12-381).  A proof
\* is processed only if it has at least that many elements; exactly that
\* many in the logicsig and wherever the router validates the arguments; and
\* a dynamic array only if its declared length is that number.
C9_ExactCounts ==
    ArgsRead =>
        LET req == IF tmpl.coordLen = 32 THEN 24
                   ELSE IF tmpl.variant = "A" THEN 33 ELSE 35
        IN  /\ tmpl.words = req
            /\ ProofCount >= req
            /\ (tmpl.host = "ls" \/ tmpl.validate) => ProofCount = req
            /\ tmpl.array = "dynamic" => ArrayLength(tmpl, args.proof) = req

\* the BN254 verifier, which follows Variant A, accepted a proof of 24
\* elements
C9_Witness ==
    /\ ArgsRead
    /\ vpc = "done"
    /\ tmpl.name = "tmplPuyaVerifierBn254"
    /\ tmpl.variant = "A"
    /\ ProofCount = 24
    /\ m.result = "True"

WrongCount ==
    /\ tmpl.array = "dynamic"
    /\ Len(args.proof) >= 2 /\ Len(args.pub) >= 2
    /\ \/ ArrayLength(tmpl, args.proof) # tmpl.words
       \/ ArrayLength(tmpl, args.pub) # VkOf(tmpl).NbPublicVariables

\* a curve opcode was given proof bytes that encode no point of the curve
BadPointUsed == \E p \in ecin : G1Index(p.bytes, tmpl.coordLen) = -1

\* an argument is shorter than the elements verify reads from it, or is not
\* the encoding of an array where the router validates encodings
Malformed ==
    \/ Len(Elements(tmpl, args.proof)) < 32 * tmpl.words
    \/ Len(Elements(tmpl, args.pub)) < 32 * VkOf(tmpl).NbPublicVariables
    \/ /\ tmpl.validate
       /\ \/ Len(Elements(tmpl, args.proof)) # 32 * ArrayLength(tmpl, args.proof)
          \/ Len(Elements(tmpl, args.pub)) # 32 * ArrayLength(tmpl, args.pub)
          \/ /\ tmpl.array = "static"
             /\ \/ Len(args.proof) # 32 * tmpl.words
                \/ Len(args.pub) # 32 * VkOf(tmpl).NbPublicVariables

\* the last statement executed was a curve opcode
StoppedAtCurveOpcode ==
    /\ ops # << >>
    /\ ops[Len(ops)] \in {"ec_add", "ec_scalar_mul", "ec_pairing_check"}

-----------------------------------------------------------------------------
(* Properties of the setup loader and of Compile                           *)

\* the calls of the loader that have returned
Returned == {p \in Callers : ld[p].pc = "returned"}

\* the embedded pk.bin a call asked for
PkOf(c) == embedded[PkPath(c.filename)]

\* the number of points that pk.bin provides: what its header declares, or
\* what its length holds if that is less
Available(c) ==
    IF Uint32(SubSeq(PkOf(c), 1, 4)) < (Len(PkOf(c)) - 4) \div c.g1CompressedSize
    THEN Uint32(SubSeq(PkOf(c), 1, 4))
    ELSE (Len(PkOf(c)) - 4) \div c.g1CompressedSize

\* C12: whenever loadTrustedSetupBytes returns without error, the first blob
\* is 4 + n*elementSize bytes long, starts with n in big-endian and goes on
\* with the first n points of the embedded pk.bin, unchanged and in order
\* (and the second blob is the vk.bin).
C12_SliceCorrect ==
    \A p \in Returned :
        ld[p].err = "" =>
            LET c == ld[p]
                blob == SliceBytes(c.g1Bytes, embedded)
                bytesNeeded == 4 + c.g1Count * c.g1CompressedSize
            IN  /\ Len(blob) = bytesNeeded
                /\ blob[1] * 16777216 + blob[2] * 65536 + blob[3] * 256 + blob[4]
                     = c.g1Count
                /\ SubSeq(blob, 5, bytesNeeded) = SubSeq(PkOf(c), 5, bytesNeeded)
                /\ SliceBytes(c.vkBytes, embedded) = embedded[VkPath(c.filename)]

\* a load of all the points a file provides, more than 2, has succeeded
C12_Witness ==
    \E p \in Returned :
        /\ ld[p].err = ""
        /\ ld[p].g1Count > 2
        /\ ld[p].g1Count = Available(ld[p])
        /\ SliceBytes(ld[p].g1Bytes, embedded)[4] = ld[p].g1Count

\* C13: loadTrustedSetupBytes returns an error and no blobs, without a panic,
\* when n < 2, and then it has read no file, and when n >= 2 exceeds the
\* number of points that the header of pk.bin declares or that its length
\* holds.
C13_ErrorsAndNoBlobs ==
    \A p \in Returned :
        /\ ld[p].g1Count < 2 =>
              /\ ld[p].err \notin {"", Panic}
              /\ ld[p].reads = << >>
              /\ ld[p].g1Bytes = NilSlice /\ ld[p].vkBytes = NilSlice
        /\ (/\ ld[p].g1Count >= 2
            /\ PkPath(ld[p].filename) \in DOMAIN embedded
            /\ ld[p].g1Count > Available(ld[p])) =>
              /\ ld[p].err \notin {"", Panic}
              /\ ld[p].g1Bytes = NilSlice /\ ld[p].vkBytes = NilSlice

\* a load of one point more than the file provides was refused
C13_Witness ==
    \E p \in Returned :
        /\ ld[p].g1Count >= 2
        /\ PkPath(ld[p].filename) \in DOMAIN embedded
        /\ ld[p].g1Count = Available(ld[p]) + 1
        /\ ld[p].err = ErrTooSmall
        /\ ld[p].g1Bytes = NilSlice

\* C14: the loader works on a private copy: no step of a call changes the
\* embedded files, so that whatever the other caller did before or does
\* meanwhile, a call that returns has succeeded exactly when its file
\* provides the points it asked for.
C14_PrivateCopy ==
    [][/\ embedded' = embedded
       /\ \A p \in Callers :
             (ld[p].pc # "returned" /\ ld'[p].pc = "returned"
              /\ PkPath(ld[p].filename) \in DOMAIN embedded) =>
                (ld'[p].err = "" <=>
                    (2 <= ld[p].g1Count /\ ld[p].g1Count <= Available(ld[p])))]_vars

\* after a load of n points of a file has returned, a load of m > n points
\* of the same file has succeeded
C14_Witness ==
    /\ Returned = Callers
    /\ ld["a"].filename = ld["b"].filename
    /\ ld["a"].g1Count < ld["b"].g1Count
    /\ ld["a"].err = "" /\ ld["b"].err = ""
    /\ SliceBytes(ld["a"].g1Bytes, embedded)[4] = ld["a"].g1Count
    /\ SliceBytes(ld["b"].g1Bytes, embedded)[4] = ld["b"].g1Count

\* C15: Compile returns a CompiledCircuit only when the curve is BN254 or
\* BLS12-381 and is the curve of the chosen setup; in every other case
\* (unsupported curve, other curve than the setup's, name not in Setups) it
\* returns an error before it compiles the circuit or runs a setup.
C15_CurveChecksFirst ==
    comp.pc = "returned" =>
        LET admitted == /\ comp.curve \in {"BN254", "BLS12_381"}
                        /\ comp.setupConfig \in SetupNames
                        /\ comp.curve = Setups(comp.setupConfig).Curve
        IN  /\ comp.cc => admitted
            /\ ~admitted => (~comp.cc /\ comp.err # "" /\ comp.calls = << >>)

\* Compile refused a supported curve for a name that is not in Setups, and
\* called nothing
C15_Witness ==
    /\ comp.pc = "returned"
    /\ comp.curve = "BLS12_381"
    /\ comp.setupConfig \notin SetupNames
    /\ ~comp.cc /\ comp.err # "" /\ comp.calls = << >>

-----------------------------------------------------------------------------
(* Properties of the deployed smart-contract verifier                      *)

\* the call just evaluated asked for an update or a deletion
AsksUpdate(tx) == tx.oc \in {"UpdateApplication", "DeleteApplication"}

\* C17: once make_immutable has succeeded (the immutable flag is True), the
\* application stays as it is, flag included, and every later update call,
\* UpdateApplication or DeleteApplication, from any sender, fails
C17_ImmutableForGood ==
    [][(app.exists /\ app.g.immutable = TRUE)
       => /\ app' = app
          /\ (txn'.method = "update" \/ AsksUpdate(txn')) => ~txn'.ok]_vars

\* the creator's deletion of an application made immutable has failed
C17_Witness ==
    /\ app.exists /\ app.g.immutable = TRUE
    /\ txn.method = "update" /\ txn.oc = "DeleteApplication"
    /\ txn.sender = app.creator /\ txn.appId = 1 /\ ~txn.ok

\* C18: an update call (UpdateApplication or DeleteApplication) succeeds
\* exactly when immutable is False and the sender is the creator; a
\* make_immutable call succeeds exactly when the sender is the creator; a
\* call from anyone else leaves program, existence and flag as they were
C18_CreatorOnly ==
    [][(app.exists /\ txn'.appId = 1)
       => /\ (txn'.method = "update" /\ AsksUpdate(txn'))
               => (txn'.ok <=> (app.g.immutable = FALSE
                                /\ txn'.sender = app.creator))
          /\ (txn'.method = "make_immutable" /\ txn'.oc = "NoOp")
               => (txn'.ok <=> txn'.sender = app.creator)
          /\ txn'.sender # app.creator => app' = app]_vars

\* the creator has replaced the program of a mutable application
C18_Witness ==
    /\ app.exists /\ app.g.immutable = FALSE
    /\ txn.method = "update" /\ txn.oc = "UpdateApplication"
    /\ txn.sender = app.creator /\ txn.ok
    /\ app.program = "verifier_v2" /\ txn.program = "verifier_v2"

-----------------------------------------------------------------------------
(* Properties of the argument encoders                                     *)

\* an encoder has returned
Encoded == enc # NoRead /\ enc.pc = "returned"

\* one of the two blobs is not 32-byte aligned
Unaligned == Len(enc.proof) % 32 # 0 \/ Len(enc.publicInputs) % 32 # 0

\* one of the two blobs has as many elements as a dynamic array cannot take
TooManyElements ==
    \/ Len(enc.proof) \div 32 >= AbiMaxTupleLen
    \/ Len(enc.publicInputs) \div 32 >= AbiMaxTupleLen

\* C20 as stated: both encoders return the alignment error and no output
\* exactly when a blob is not 32-byte aligned, and on aligned blobs neither
\* fail nor panic
C20_FailOnlyUnaligned ==
    Encoded =>
        /\ ~enc.panicked
        /\ Unaligned <=> (enc.err = ErrNotAligned /\ enc.out = << >>)
        /\ ~Unaligned => enc.err = ""

\* C20, amended: both encoders return the alignment error and no output
\* exactly when a blob is not 32-byte aligned, and neither ever panics;
\* on aligned blobs, the empty ones included,
\* ProofAndPublicInputsForAtomicComposer returns the two lists of 32-byte
\* elements and AbiEncodeProofAndPublicInputs the two encodings, unless a
\* blob has more elements than a dynamic array encodes, in which case it
\* returns an encoding error and no output
C20_AlignmentAndArrayBound ==
    Encoded =>
        /\ ~enc.panicked
        /\ Unaligned <=> (enc.err = ErrNotAligned /\ enc.out = << >>)
        /\ (~Unaligned /\ enc.fn = "ProofAndPublicInputsForAtomicComposer")
              => /\ enc.err = ""
                 /\ Len(enc.out) = 2
                 /\ ConcatAll(enc.out[1]) = enc.proof
                 /\ ConcatAll(enc.out[2]) = enc.publicInputs
        /\ (~Unaligned /\ enc.fn = "AbiEncodeProofAndPublicInputs")
              => IF TooManyElements
                 THEN enc.err \in {ErrEncodeProof, ErrEncodePublicInputs}
                      /\ enc.out = << >>
                 ELSE /\ enc.err = ""
                      /\ enc.out = << LengthPrefix(Len(enc.proof) \div 32)
                                        \o enc.proof,
                                      LengthPrefix(Len(enc.publicInputs) \div 32)
                                        \o enc.publicInputs >>

\* AbiEncodeProofAndPublicInputs has refused an aligned proof and an
\* unaligned list of public inputs
C20_Witness ==
    /\ Encoded
    /\ enc.fn = "AbiEncodeProofAndPublicInputs"
    /\ Len(enc.proof) = 64 /\ Len(enc.publicInputs) = 33
    /\ enc.err = ErrNotAligned /\ enc.out = << >> /\ ~enc.panicked

\* es are the consecutive 32-byte elements of blob, in order
ElementsOf(es, blob) ==
    /\ Len(es) * 32 = Len(blob)
    /\ \A i \in 1..Len(es) : es[i] = SubSeq(blob, 32 * i - 31, 32 * i)
    /\ ConcatAll(es) = blob

\* w is blob behind its two-byte big-endian element count
Wrapped(w, blob) ==
    /\ Len(w) = 2 + Len(blob)
    /\ w[1] * 256 + w[2] = Len(blob) \div 32
    /\ SubSeq(w, 3, Len(w)) = blob

-----------------------------------------------------------------------------
(* Properties of the helpers                                               *)

\* C22: extractPublicInputs returns the public variables of the witness,
\* each as 32 big-endian bytes, in the order of the witness, without the
\* three counts and without any secret variable; when Public() or
\* MarshalBinary() fails it returns an error and no bytes
C22_PublicElementsOnly ==
    (wit # NoRead /\ wit.pc = "returned") =>
        IF wit.publicFails \/ wit.marshalFails
        THEN wit.err # "" /\ wit.out = << >>
        ELSE /\ wit.err = ""
             /\ Len(wit.out) = 32 * wit.witness.nbPublic
             /\ \A i \in 1..wit.witness.nbPublic :
                   /\ BigUIntFromBytes(SubSeq(wit.out, 32 * i - 31, 32 * i))
                        = wit.witness.vector[i]
                   /\ \A j \in 1..(32 - 1) : wit.out[32 * i - 32 + j] = 0

\* the two public variables of a witness with two secret ones were returned
C22_Witness ==
    /\ wit # NoRead /\ wit.pc = "returned" /\ wit.err = ""
    /\ wit.witness.nbPublic = 2 /\ wit.witness.nbSecret = 2
    /\ wit.witness.vector[1] = 5 /\ wit.witness.vector[2] = R_MOD - 1
    /\ Len(wit.out) = 64 /\ wit.out[32] = 5 /\ wit.out[64] = R_MOD - 1

\* ShouldRecompile has returned
Recompiled == rc # NoRead /\ rc.pc = "returned"

\* the target or one of the listed sources cannot be inspected
SomeFileUnknown ==
    \/ ~rc.fsys["target"].ok
    \/ \E i \in 1..Len(rc.sourcePaths) : ~rc.fsys[rc.sourcePaths[i]].ok

-----------------------------------------------------------------------------
(* Properties of the scalar arithmetic of verify()                         *)

\* the scalar part of verify() has run
ScalarsComputed == m # NoRead /\ "sc" \in DOMAIN m

\* C24: every scalar that verify() computes by a subtraction is a residue in
\* [0, R_MOD): Zz, the linearized evaluation of Variant A, which is hashed
\* into the opening-fold challenge and starts the folded claim, and the
\* left side of the quotient check of Variant B
C24_SubtractionsCanonical ==
    ScalarsComputed =>
        /\ m.sc.Zz \in 0..(R_MOD - 1)
        /\ tmpl.variant = "A" => m.sc.linearized_poly_at_z \in 0..(R_MOD - 1)
        /\ tmpl.variant = "B" => m.sc.quot \in 0..(R_MOD - 1)

-----------------------------------------------------------------------------
(* Properties of the subroutines                                           *)

\* subroutine fn has returned
Calculated(fn) == calc # NoRead /\ calc.pc = "returned" /\ calc.fn = fn

\* C25: invert(p) is p's x-coordinate followed by (P_MOD - y) mod P_MOD, both
\* at the coordinate width of the curve: the y-coordinate is below P_MOD and
\* the identity (all zero bytes) is mapped to itself
C25_InvertCanonical ==
    Calculated("invert") =>
        LET w == calc.t.coordLen
            y == BigUIntFromBytes(SubSeq(calc.p, w + 1, 2 * w))
        IN  /\ Len(calc.result) = 2 * w
            /\ SubSeq(calc.result, 1, w) = SubSeq(calc.p, 1, w)
            /\ BigUIntFromBytes(SubSeq(calc.result, w + 1, 2 * w))
                 = (P_MOD - y) % P_MOD
            /\ calc.p = bzero(2 * w) => calc.result = calc.p

\* b^e mod md by e multiplications
RECURSIVE PowerMod(_, _, _)
PowerMod(b, e, md) == IF e = 0 THEN 1 % md ELSE (b * PowerMod(b, e - 1, md)) % md

\* C26: expmod(base, exponent, modulus) is base^exponent mod modulus for
\* every base >= 0, exponent >= 0 and modulus >= 2; so for the prime R_MOD
\* and x not divisible by it, x * expmod(x, R_MOD - 2, R_MOD) mod R_MOD = 1
C26_ExpmodIsPower ==
    Calculated("expmod") =>
        /\ calc.result = PowerMod(calc.base, calc.exponent, calc.modulus)
        /\ (calc.modulus = R_MOD /\ calc.exponent = R_MOD - 2
            /\ calc.base % R_MOD # 0)
              => (calc.base * calc.result) % R_MOD = 1

\* expmod has inverted 7 modulo R_MOD
C26_Witness ==
    /\ Calculated("expmod")
    /\ calc.base = 7 /\ calc.exponent = R_MOD - 2 /\ calc.modulus = R_MOD
    /\ (7 * calc.result) % R_MOD = 1

\* the run of the interpolation has passed the backward pass
Inverted == calc # NoRead /\ calc.fn = "PI" /\ calc.pc = "backward" /\ calc.i = 0

\* C27: batch[i] starts as (zeta - omega^i) mod q; when none of these is 0,
\* after the forward pass, the inversion and the backward pass every
\* batch[i] is the inverse of what it was; one inversion has been made
\* whatever the number of public inputs, and without public inputs PI is 0
C27_BatchInverted ==
    /\ Inverted =>
          /\ \A i \in 1..Len(calc.orig) :
                calc.orig[i]
                  = (calc.zeta + R_MOD - PowerMod(calc.omega, i - 1, R_MOD)) % R_MOD
          /\ (\A i \in 1..Len(calc.orig) : calc.orig[i] # 0)
                => \A i \in 1..Len(calc.orig) :
                      (calc.batch[i] * calc.orig[i]) % R_MOD = 1
          /\ calc.inversions = 1
    /\ Calculated("PI") =>
          /\ calc.inversions = 1
          /\ calc.public_inputs = << >> => calc.PI = 0

\* three differences have been inverted with one inversion
C27_Witness ==
    /\ Inverted /\ calc.inversions = 1
    /\ Len(calc.orig) = 3
    /\ \A i \in 1..3 : calc.orig[i] # 0 /\ (calc.batch[i] * calc.orig[i]) % R_MOD = 1
    /\ calc.batch # calc.orig

\* the inverse of a modulo R_MOD (a not divisible by R_MOD)
FieldInverse(a) == CHOOSE y \in 1..(R_MOD - 1) : (a * y) % R_MOD = 1

\* L_i(x): the product over the other points omega^j of the domain of
\* (x - omega^j) / (omega^i - omega^j), j running down from k
RECURSIVE LagrangeAt(_, _, _, _)
LagrangeAt(i, x, omega, k) ==
    IF k < 0 THEN 1
    ELSE IF k = i THEN LagrangeAt(i, x, omega, k - 1)
    ELSE LET wi == PowerMod(omega, i, R_MOD)
             wj == PowerMod(omega, k, R_MOD)
             factor == (((x + R_MOD - wj) % R_MOD)
                        * FieldInverse((wi + R_MOD - wj) % R_MOD)) % R_MOD
         IN  (factor * LagrangeAt(i, x, omega, k - 1)) % R_MOD

\* the sum of L_i(x) * pub[i] over the first n public inputs
RECURSIVE LagrangeSum(_, _, _, _, _)
LagrangeSum(x, pub, omega, size, n) ==
    IF n = 0 THEN 0
    ELSE (LagrangeSum(x, pub, omega, size, n - 1)
          + ((LagrangeAt(n - 1, x, omega, size - 1) * pub[n]) % R_MOD)) % R_MOD

\* zeta is the point omega^i of one of the public inputs
OnPublicDomain ==
    \E i \in 1..Len(calc.public_inputs) :
        calc.zeta = PowerMod(calc.omega, i - 1, R_MOD)

\* C28 as stated: for every zeta in [0, q) and every public inputs, PI is
\* the sum of L_i(zeta) * public_inputs[i] modulo q
C28_PIIsLagrangeSum ==
    Calculated("PI") =>
        calc.PI = LagrangeSum(calc.zeta, calc.public_inputs, calc.omega,
                              VkOf(TmplScBls).Size, Len(calc.public_inputs))

\* C28, amended: PI is the sum of L_i(zeta) * public_inputs[i] modulo q for
\* every zeta in [0, q) other than the points omega^i of the public inputs;
\* at those points PI is 0, whatever the public inputs
C28_PIOffTheDomain ==
    Calculated("PI") =>
        IF OnPublicDomain THEN calc.PI = 0
        ELSE calc.PI = LagrangeSum(calc.zeta, calc.public_inputs, calc.omega,
                                   VkOf(TmplScBls).Size, Len(calc.public_inputs))

\* three public inputs were interpolated at a zeta off the domain, to a PI
\* other than 0
C28_Witness ==
    /\ Calculated("PI") /\ ~OnPublicDomain
    /\ calc.public_inputs = <<1, 5, R_MOD - 1>>
    /\ calc.zeta = 2
    /\ calc.PI # 0
    /\ calc.PI = LagrangeSum(2, <<1, 5, R_MOD - 1>>, calc.omega, 4, 3)

-----------------------------------------------------------------------------
(* Properties of the opening fold                                          *)

\* the multiple of G that the bytes b encode in the running verifier
IndexOf(b) == G1Index(b, tmpl.coordLen)

\* the sum of r^(k-1) * xs[k] modulo R_MOD over the first n terms
RECURSIVE FoldSum(_, _, _)
FoldSum(r, xs, n) ==
    IF n = 0 THEN 0
    ELSE (FoldSum(r, xs, n - 1) + PowerMod(r, n - 1, R_MOD) * (xs[n] % R_MOD)) % R_MOD

\* the commitments of the fold in the order of their weights, as multiples
\* of G, and their claimed evaluations in the same order
FoldedCommitments ==
    (IF tmpl.variant = "A" THEN << >>
     ELSE << IndexOf(m.cm.regs.folded_h.bytes) >>)
    \o << IndexOf(m.cm.regs.lin_poly_com.bytes),
          IndexOf(m.p.L_COM), IndexOf(m.p.R_COM), IndexOf(m.p.O_COM),
          VkOf(tmpl).S[1], VkOf(tmpl).S[2] >>

FoldedEvaluations ==
    (IF tmpl.variant = "A" THEN << m.sc.linearized_poly_at_z >>
     ELSE << Fr(m.p.QUOTIENT_POLY_AT_Z), Fr(m.p.LINEAR_POLY_AT_Z) >>)
    \o << Fr(m.p.L_AT_Z), Fr(m.p.R_AT_Z), Fr(m.p.O_AT_Z),
          Fr(m.p.S1_AT_Z), Fr(m.p.S2_AT_Z) >>

\* the opening fold has run
Folded == m # NoRead /\ "fo" \in DOMAIN m

\* C29: the folded digest is the sum of r^k times the commitments and the
\* folded claim the sum of r^k times their evaluations, in the same order:
\* linearization, L, R, O, S1, S2 from r^0 in Variant A; folded quotient,
\* linearization, L, R, O, S1, S2 from r^0 in Variant B; the shifted opening
\* then adds r' * Z to the digest and r' * z(zeta*omega) to the claim
C29_SameWeights ==
    /\ Folded =>
          /\ Len(FoldedCommitments) = Len(FoldedEvaluations)
          /\ IndexOf(m.fo.regs.digest.bytes)
               = FoldSum(m.fo.r, FoldedCommitments, Len(FoldedCommitments))
          /\ m.fo.claims
               = FoldSum(m.fo.r, FoldedEvaluations, Len(FoldedEvaluations))
    /\ (m # NoRead /\ "pc" \in DOMAIN m) =>
          /\ m.pc.claims
               = (m.fo.claims + m.pc.r * Fr(m.p.GRAND_PRODUCT_AT_Z_OMEGA)) % R_MOD
          /\ IndexOf(m.pc.regs.digest.bytes)
               = ( IndexOf(m.fo.regs.digest.bytes)
                   + m.pc.r * IndexOf(m.p.GRAND_PRODUCT)
                   + (R_MOD - m.pc.claims) * VkOf(tmpl).KzgG1
                   + IndexOf(m.pc.regs.points_quotient.bytes) ) % R_MOD

\* a Variant B run has folded its seven commitments with a challenge other
\* than 0 and 1
C29_Witness ==
    /\ Folded /\ tmpl.variant = "B"
    /\ m.fo.r \notin {0, 1}
    /\ Len(FoldedCommitments) = 7
    /\ IndexOf(m.fo.regs.digest.bytes) = FoldSum(m.fo.r, FoldedCommitments, 7)
    /\ m.fo.claims = FoldSum(m.fo.r, FoldedEvaluations, 7)
    /\ m.fo.claims # 0

-----------------------------------------------------------------------------
(* Properties of setup.Run                                                 *)

\* C30: a call of setup.Run that names neither TestOnlyBN254 nor
\* TestOnlyBLS12381 returns an error or sets up from an embedded trusted
\* setup: it never generates the test-only SRS
C30_TestSrsOnlyWhenNamed ==
    (comp # NoRead /\ comp.pc = "ran"
       /\ comp.setupConfig \notin {"TestOnlyBN254", "TestOnlyBLS12381"})
    => (comp.err # "" \/ comp.srs = "embedded")

====
